---- MODULE Spec2Model ----
(***************************************************************************)
(* Washington Commanders Hub: the browser-side fetch / cache / render      *)
(* engine (fetchDataAndDisplay), its four page-load tasks and the          *)
(* response normalizers it is parameterised with.                          *)
(*                                                                         *)
(* JavaScript values are tagged records (field t is the typeof tag), so    *)
(* that null, undefined, strings, numbers, arrays and objects can be told  *)
(* apart the way the code tells them apart.  A JavaScript string is a      *)
(* sequence of tokens; the empty string is the empty sequence.             *)
(***************************************************************************)
EXTENDS Integers, Sequences, FiniteSets, TLC

(* ---------------------------- bounds ----------------------------------- *)

\* number of page loads (the first load and the reloads after it)
MaxLoads == 2
\* number of the four sections that the loaded page contains at most
MaxSections == 1
\* length of the lists (children, entries, items, records) of a standings body
MaxEntries == 2
\* length of the summary string of a standings record
MaxSummaryLen == 6
\* length of the stats list of a standings record
MaxStats == 2
\* length of the events list of an events body
MaxEvents == 2
\* length of the competitors list of a competition
MaxCompetitors == 3
\* length of the podcasts list of a content body
MaxPodcasts == 3
\* invocations of the serverless functions
MaxInvocations == 2

(* ------------------------ JavaScript values ---------------------------- *)

JUndefined == [t |-> "undefined"]
JNull == [t |-> "null"]
JStr(s) == [t |-> "string", s |-> s]
JNum(n) == [t |-> "number", n |-> n]
JBool(b) == [t |-> "boolean", b |-> b]
JArr(a) == [t |-> "array", a |-> a]
JObj(o) == [t |-> "object", o |-> o]
\* ToBoolean: what `if (v)`, `!v` and `v || w` test
Truthy(v) ==
    CASE v.t = "undefined" -> FALSE
      [] v.t = "null" -> FALSE
      [] v.t = "string" -> Len(v.s) > 0
      [] v.t = "number" -> v.n # 0
      [] v.t = "boolean" -> v.b
      [] OTHER -> TRUE

\* v || w
Or(v, w) == IF Truthy(v) THEN v ELSE w

\* v.f for a v that is neither null nor undefined
Prop(v, f) == IF v.t = "object" /\ f \in DOMAIN v.o THEN v.o[f] ELSE JUndefined

\* white space as String.prototype.trim strips it
WhiteSpace == {" ", "\n", "\n    ", "\n        ", "\n            ", "\n                "}

\* s.trim() === ''
IsBlank(s) == \A i \in 1..Len(s) : s[i] \in WhiteSpace

\* s.includes(lit) for a literal that is one token
Includes(s, lit) == \E i \in 1..Len(s) : s[i] = lit

(* ------------------------- tasks and requests -------------------------- *)

Tasks == {"events", "standings", "articles", "podcasts"}

eventsUrl == "/api/espn-events"
standingsUrl == "/api/espn-standings"
contentUrl == "/api/content"

\* the arguments each task passes to fetchDataAndDisplay
Request(task) ==
    CASE task = "articles" ->
           [url |-> contentUrl, elementId |-> "articles-list", cacheKey |-> "articles-cache",
            emptyDataMessage |-> "No hay articulos disponibles en este momento."]
      [] task = "podcasts" ->
           [url |-> contentUrl, elementId |-> "podcast-list", cacheKey |-> "podcasts-cache",
            emptyDataMessage |-> "No hay podcasts disponibles en este momento."]
      [] task = "events" ->
           [url |-> eventsUrl, elementId |-> "teams-data", cacheKey |-> "commanders-events",
            emptyDataMessage |-> "No hay partidos disponibles para los Commanders en este momento."]
      [] task = "standings" ->
           [url |-> standingsUrl, elementId |-> "temporada-data", cacheKey |-> "commanders-standings",
            emptyDataMessage |-> "No hay datos de clasificacion disponibles en este momento."]

CacheKeys == {Request(task).cacheKey : task \in Tasks}

(* ------------------------------ errors --------------------------------- *)

NoError == [name |-> "none", message |-> <<>>, type |-> "", status |-> JUndefined]

\* new FetchDataError(message, type, status)
FetchDataError(message, type, status) ==
    [name |-> "FetchDataError", message |-> message, type |-> type, status |-> status]

\* an exception raised by the runtime or the browser, not by the engine
NativeError(name, message) ==
    [name |-> name, message |-> <<message>>, type |-> "", status |-> JUndefined]

NetworkErrorMessage == <<"Could not connect to the server. Please check your internet connection.">>
\* variant: the message quotes the response body
HttpErrorMessageWithBody(response) ==
    <<"Failed to load data: Server responded with ", ToString(response.status), " (",
      response.statusText, "): ">> \o response.text

\* line 101: the message of an HttpError
HttpErrorMessage(response) ==
    <<"Failed to load data: Server responded with ", ToString(response.status), " (",
      response.statusText, ").">>
ContentTypeErrorMessage == <<"The server provided data in an unexpected format (expected JSON).">>
JsonParseErrorMessage == <<"There was an issue understanding the data from the server (JSON parsing failed).">>
ProcessingErrorMessage == <<"There was an issue preparing the data for display.">>
UnexpectedErrorMessage == <<"An unexpected error occurred. Please try again.">>

(* --------------------- articles / podcasts transforms ------------------ *)

RECURSIVE Join(_)
\* Array.prototype.join('') of an array of strings
Join(parts) == IF parts = <<>> THEN <<>> ELSE Head(parts) \o Join(Tail(parts))

\* the string a template literal interpolates for v
Text(v) ==
    CASE v.t = "string" -> v.s
      [] v.t = "number" -> <<ToString(v.n)>>
      [] v.t = "boolean" -> IF v.b THEN <<"true">> ELSE <<"false">>
      [] v.t = "null" -> <<"null">>
      [] v.t = "undefined" -> <<"undefined">>
      [] v.t = "array" -> <<"[array]">>
      [] OTHER -> <<"[object Object]">>

\* a TypeError raised inside a transform
JTypeError == [t |-> "throw", error |-> NativeError("TypeError", "Cannot read properties of null")]

\* reading a property of null or undefined raises
Nullish(v) == v.t \in {"null", "undefined"}

\* the markup of one article
ArticleCard(article) ==
    LET title == Or(Prop(article, "title"), JStr(<<"Untitled Article">>))
        summary == Or(Prop(article, "summary"), JStr(<<"No summary available.">>))
        link == Or(Prop(article, "link"), JStr(<<"#">>))
    IN  <<"\n        ", "<article>", "\n            ", "<h3>">> \o Text(title)
        \o <<"</h3>", "\n            ", "<p>">> \o Text(summary)
        \o <<" <a href=">> \o Text(link)
        \o <<" rel=noopener target=_blank>Leer mas</a></p>", "\n        ", "</article>", "\n    ">>

processArticles(data) ==
    IF \/ ~Truthy(data)
       \/ ~Truthy(Prop(data, "articles"))
       \/ Prop(data, "articles").t # "array"
       \/ Len(Prop(data, "articles").a) = 0
    THEN JNull
    ELSE LET articles == Prop(data, "articles").a
         IN  IF \E i \in 1..Len(articles) : Nullish(articles[i])
             THEN JTypeError
             ELSE JStr(Join([i \in 1..Len(articles) |-> ArticleCard(articles[i])]))

\* variant: a podcast without src gets a card with a placeholder source
PodcastCardFallback(podcast) ==
    LET title == Or(Prop(podcast, "title"), JStr(<<"Untitled Podcast">>))
        src == Or(Prop(podcast, "src"), JStr(<<"#">>))
    IN  <<"\n        ", "<div class=podcast-item>", "\n            ", "<h3>">> \o Text(title)
        \o <<"</h3>", "\n            ", "<audio controls aria-label=Reproducir ">> \o Text(title)
        \o <<">", "\n                ", "<source src=">> \o Text(src)
        \o <<" type=audio/mpeg>", "\n                ", "Tu navegador no soporta audio HTML5.",
             "\n            ", "</audio>", "\n        ", "</div>", "\n    ">>

\* the markup of one podcast, the empty string when it has no src
PodcastCard(podcast) ==
    LET title == Or(Prop(podcast, "title"), JStr(<<"Untitled Podcast">>))
        src == Or(Prop(podcast, "src"), JStr(<<>>))
    IN  IF ~Truthy(src)
        THEN <<>>
        ELSE <<"\n        ", "<div class=podcast-item>", "\n            ", "<h3>">> \o Text(title)
             \o <<"</h3>", "\n            ", "<audio controls aria-label=Reproducir ">> \o Text(title)
             \o <<">", "\n                ", "<source src=">> \o Text(src)
             \o <<" type=audio/mpeg>", "\n                ", "Tu navegador no soporta audio HTML5.",
                  "\n            ", "</audio>", "\n        ", "</div>", "\n    ">>

processPodcasts(data) ==
    IF \/ ~Truthy(data)
       \/ ~Truthy(Prop(data, "podcasts"))
       \/ Prop(data, "podcasts").t # "array"
       \/ Len(Prop(data, "podcasts").a) = 0
    THEN JNull
    ELSE LET podcasts == Prop(data, "podcasts").a
         IN  IF \E i \in 1..Len(podcasts) : Nullish(podcasts[i])
             THEN JTypeError
             ELSE JStr(Join([i \in 1..Len(podcasts) |-> PodcastCard(podcasts[i])]))

(* --------------------------- events transform -------------------------- *)

\* Array.isArray(v)
IsArray(v) == v.t = "array"

\* v[0] for a truthy v
First(v) ==
    CASE v.t = "array" -> IF Len(v.a) > 0 THEN v.a[1] ELSE JUndefined
      [] v.t = "string" -> JStr(<<Head(v.s)>>)
      [] OTHER -> JUndefined

\* v && v[0]
AndFirst(v) == IF Truthy(v) THEN First(v) ELSE v

\* the dates `new Date(s)` parses, with their es-ES rendering in Europe/Madrid
KnownDates ==
    [d \in {"2024-09-08T20:25Z", "2024-12-01T18:00Z"} |->
        IF d = "2024-09-08T20:25Z" THEN "08/09/2024, 22:25" ELSE "01/12/2024, 19:00"]

\* variant: the parsed date is formatted without the validity test
EventDateStrUnchecked(event) ==
    LET date == Prop(event, "date")
    IN  IF ~Truthy(date) THEN <<"Date N/A">>
        ELSE IF date.t = "string" /\ Len(date.s) = 1 /\ date.s[1] \in DOMAIN KnownDates
             THEN <<KnownDates[date.s[1]]>>
        ELSE <<"Invalid Date">>

\* lines 238-254: the display date of an event
EventDateStr(event) ==
    LET date == Prop(event, "date")
    IN  IF ~Truthy(date) THEN <<"Date N/A">>
        ELSE IF date.t = "string" /\ Len(date.s) = 1 /\ date.s[1] \in DOMAIN KnownDates
             THEN <<KnownDates[date.s[1]]>>
        ELSE IF date.t = "number" THEN <<"01/01/1970, 01:00">>
        ELSE <<"Date N/A">>

\* variant: the home team is the first competitor, the away team the second
FindSideByPosition(competitors, side) ==
    IF side = "home" THEN competitors[1] ELSE competitors[2]

\* competitors.find(t => t && t.homeAway === side), undefined when there is none
FindSide(competitors, side) ==
    LET hit(i) == Truthy(competitors[i]) /\ Prop(competitors[i], "homeAway") = JStr(<<side>>)
    IN  IF \E i \in 1..Len(competitors) : hit(i)
        THEN competitors[CHOOSE i \in 1..Len(competitors) :
                            hit(i) /\ \A j \in 1..(i - 1) : ~hit(j)]
        ELSE JUndefined

formatTeamInfo(teamData) ==
    LET team == Prop(teamData, "team")
        name == Or(Or(Prop(team, "displayName"), Prop(team, "name")), JStr(<<"Unknown Team">>))
        abbreviation == Or(Prop(team, "abbreviation"), JStr(<<"N/A">>))
        logo == Or(Prop(team, "logo"), JStr(<<>>))
    IN  Text(abbreviation) \o <<" <img src=">> \o Text(logo) \o <<" alt=">> \o Text(name)
        \o <<" logo style=height: 20px; vertical-align: middle; ">>
        \o (IF ~Truthy(logo) THEN <<"display:none;">> ELSE <<>>) \o <<">">>

\* lines 292-300: the score or the status of a competition
EventScore(competition, homeTeamData, awayTeamData) ==
    LET status == Prop(competition, "status")
        type == IF Truthy(status) THEN Prop(status, "type") ELSE JUndefined
    IN  IF Truthy(type) /\ Truthy(Prop(type, "completed"))
        THEN Text(Or(Prop(homeTeamData, "score"), JStr(<<"0">>))) \o <<" - ">>
             \o Text(Or(Prop(awayTeamData, "score"), JStr(<<"0">>)))
        ELSE IF Truthy(type) /\ Truthy(Prop(type, "description"))
             THEN Text(Prop(type, "description"))
             ELSE <<"Pendiente">>

\* the callback of data.events.map: the line of one event as a string value,
\* or a raised TypeError
EventLine(event) ==
    IF ~Truthy(event) \/ event.t \notin {"object", "array"} THEN JStr(<<>>)
    ELSE
    LET eventDateStr == EventDateStr(event)
        eventName == Text(Or(Prop(event, "name"), JStr(<<"Unnamed Event">>)))
        competition == AndFirst(Prop(event, "competitions"))
        competitors == IF Truthy(competition) THEN Prop(competition, "competitors") ELSE JUndefined
    IN  IF \/ ~Truthy(competition)
           \/ ~Truthy(competitors)
           \/ (competitors.t = "array" /\ Len(competitors.a) < 2)
           \/ (competitors.t = "string" /\ Len(competitors.s) < 2)
        THEN JStr(<<"<p>Evento: ">> \o eventName \o <<" - Fecha: ">> \o eventDateStr
                  \o <<" - Datos de competicion incompletos</p>">>)
        ELSE IF ~IsArray(competitors) THEN JTypeError
        ELSE
        LET homeTeamData == FindSide(competitors.a, "home")
            awayTeamData == FindSide(competitors.a, "away")
        IN  IF \/ ~Truthy(homeTeamData) \/ ~Truthy(awayTeamData)
               \/ ~Truthy(Prop(homeTeamData, "team")) \/ ~Truthy(Prop(awayTeamData, "team"))
            THEN JStr(<<"<p>Evento: ">> \o eventName \o <<" - Fecha: ">> \o eventDateStr
                      \o <<" - Datos de equipo incompletos</p>">>)
            ELSE JStr(<<"<p>">> \o formatTeamInfo(awayTeamData) \o <<" @ ">>
                      \o formatTeamInfo(homeTeamData) \o <<" | Fecha: ">> \o eventDateStr
                      \o <<" | Estado: ">>
                      \o EventScore(competition, homeTeamData, awayTeamData) \o <<"</p>">>)

\* Array.prototype.filter(x => x !== '') on an array of strings
RECURSIVE FilterNonEmpty(_)
FilterNonEmpty(lines) ==
    IF lines = <<>> THEN <<>>
    ELSE IF Head(lines) = <<>> THEN FilterNonEmpty(Tail(lines))
    ELSE <<Head(lines)>> \o FilterNonEmpty(Tail(lines))

\* variant: an entry that is skipped leaves a placeholder line
EventLinesPlaceholder(events) ==
    [i \in 1..Len(events) |->
        IF EventLine(events[i]).s = <<>> THEN <<"<p>Evento no disponible</p>">>
        ELSE EventLine(events[i]).s]

\* variant: an event without competition data is dropped
EventLinesCompleteOnly(events) ==
    FilterNonEmpty([i \in 1..Len(events) |->
        IF Includes(EventLine(events[i]).s, " - Datos de competicion incompletos</p>")
        THEN <<>> ELSE EventLine(events[i]).s])

\* the lines of the events that produced one, in input order
EventLines(events) == FilterNonEmpty([i \in 1..Len(events) |-> EventLine(events[i]).s])

processTeamEventsData(data) ==
    IF \/ ~Truthy(data)
       \/ ~Truthy(Prop(data, "events"))
       \/ ~IsArray(Prop(data, "events"))
       \/ Len(Prop(data, "events").a) = 0
    THEN JNull
    ELSE LET events == Prop(data, "events").a
         IN  IF \E i \in 1..Len(events) : EventLine(events[i]).t = "throw"
             THEN JTypeError
             ELSE LET processedEvents == Join(EventLines(events))
                  IN  IF processedEvents = <<>> \/ IsBlank(processedEvents)
                      THEN JNull
                      ELSE JStr(processedEvents)

(* -------------------------- standings transform ------------------------ *)

\* Array.prototype.find with a callback that raises on null and undefined
\* elements, given the indices of the elements its test accepts: the first
\* element matching, JUndefined, or the raised TypeError
Find(arr, matching) ==
    LET stops == {i \in 1..Len(arr) : Nullish(arr[i]) \/ i \in matching}
        first == CHOOSE i \in stops : \A j \in stops : i <= j
    IN  IF stops = {} THEN JUndefined
        ELSE IF Nullish(arr[first]) THEN JTypeError
        ELSE arr[first]

\* the tracked team (Washington Commanders)
TEAM_ID == "28"

IsCommanders(entry) ==
    Truthy(Prop(entry, "team")) /\ Prop(Prop(entry, "team"), "id") = JStr(<<TEAM_ID>>)

\* lines 331-338: the loop over data.children, from a given teamRecord
RECURSIVE SearchChildren(_, _)
SearchChildren(children, teamRecord) ==
    IF children = <<>> THEN teamRecord
    ELSE LET child == Head(children)
         IN  IF Nullish(child) THEN JTypeError
             ELSE LET standings == Prop(child, "standings")
                      entries == IF Truthy(standings) THEN Prop(standings, "entries") ELSE JUndefined
                  IN  IF Truthy(standings) /\ Truthy(entries) /\ IsArray(entries)
                      THEN LET found == Find(entries.a, {i \in 1..Len(entries.a) : IsCommanders(entries.a[i])})
                           IN  IF found.t = "throw" \/ Truthy(found) THEN found
                               ELSE SearchChildren(Tail(children), found)
                      ELSE SearchChildren(Tail(children), teamRecord)

IsTotalItem(item) ==
    Prop(item, "type") = JStr(<<"total">>) \/ Prop(item, "description") = JStr(<<"Overall">>)

\* variant: every entry of the records list counts as the overall record
IsTotalRecordAny(r) == TRUE

\* line 347: r.type === 'total' || r.name === 'Overall'
IsTotalRecord(r) ==
    Prop(r, "type") = JStr(<<"total">>) \/ Prop(r, "name") = JStr(<<"Overall">>)

\* lines 326-348: the record the standings are read from
LocateTeamRecord(data) ==
    LET children == Prop(data, "children")
        nested == IF Truthy(children) /\ IsArray(children)
                  THEN SearchChildren(children.a, JUndefined)
                  ELSE JUndefined
        record == Prop(data, "record")
        items == IF Truthy(record) THEN Prop(record, "items") ELSE JUndefined
        records == Prop(data, "records")
    IN  IF nested.t = "throw" THEN nested
        ELSE IF ~Truthy(nested) /\ Truthy(record) /\ IsArray(items) /\ Len(items.a) > 0
             THEN Find(items.a, {i \in 1..Len(items.a) : IsTotalItem(items.a[i])})
        ELSE IF ~Truthy(nested) /\ IsArray(records) /\ Len(records.a) > 0
             THEN Find(records.a, {i \in 1..Len(records.a) : IsTotalRecord(records.a[i])})
        ELSE nested

Digits == {"0", "1", "2", "3", "4", "5", "6", "7", "8", "9"}

DigitValue(c) ==
    CASE c = "0" -> 0 [] c = "1" -> 1 [] c = "2" -> 2 [] c = "3" -> 3 [] c = "4" -> 4
      [] c = "5" -> 5 [] c = "6" -> 6 [] c = "7" -> 7 [] c = "8" -> 8 [] c = "9" -> 9

\* the number a non-empty run of decimal digits denotes
RECURSIVE DigitsValue(_)
DigitsValue(ds) ==
    IF ds = <<>> THEN 0 ELSE 10 * DigitsValue(SubSeq(ds, 1, Len(ds) - 1)) + DigitValue(ds[Len(ds)])

\* the length of the longest prefix of s made of digits
RECURSIVE DigitPrefix(_)
DigitPrefix(s) ==
    IF s = <<>> \/ Head(s) \notin Digits THEN 0 ELSE 1 + DigitPrefix(Tail(s))

\* s.match(/^(\d+)-(\d+)(?:-(\d+))?$/): the captured groups (the third one
\* <<>> when absent), or <<>> when s does not match
SummaryMatch(s) ==
    LET n1 == DigitPrefix(s)
        r1 == SubSeq(s, n1 + 2, Len(s))
        n2 == DigitPrefix(r1)
        r2 == SubSeq(r1, n2 + 2, Len(r1))
        n3 == DigitPrefix(r2)
    IN  IF n1 = 0 \/ Len(s) < n1 + 2 \/ s[n1 + 1] # "-" \/ n2 = 0 THEN <<>>
        ELSE IF Len(r1) = n2 THEN <<SubSeq(s, 1, n1), SubSeq(r1, 1, n2), <<>>>>
        ELSE IF r1[n2 + 1] = "-" /\ n3 > 0 /\ Len(r2) = n3
             THEN <<SubSeq(s, 1, n1), SubSeq(r1, 1, n2), r2>>
        ELSE <<>>

\* parseInt(s, 10) || 0 for a string s given character by character
ParseIntOr0(s) ==
    LET body == IF s # <<>> /\ Head(s) \in WhiteSpace THEN Tail(s) ELSE s
        neg == body # <<>> /\ Head(body) = "-"
        unsigned == IF body # <<>> /\ Head(body) \in {"-", "+"} THEN Tail(body) ELSE body
        n == DigitPrefix(unsigned)
    IN  IF n = 0 THEN 0
        ELSE IF neg THEN 0 - DigitsValue(SubSeq(unsigned, 1, n))
        ELSE DigitsValue(SubSeq(unsigned, 1, n))

\* variant: the template names the ties before the losses
StandingsLineSwapped(wins, losses, ties, source) ==
    JStr(<<"<p>Washington Commanders: ", ToString(wins), "V - ", ToString(ties), "D - ",
           ToString(losses), "E (Source: ", source, ")</p>">>)

\* lines 365 and 391: the fragment of the standings
StandingsLine(wins, losses, ties, source) ==
    JStr(<<"<p>Washington Commanders: ", ToString(wins), "V - ", ToString(losses), "D - ",
           ToString(ties), "E (Source: ", source, ")</p>">>)

\* name.toUpperCase().slice(0, 1)
Abbreviation(name) ==
    CASE name = "wins" -> "W" [] name = "losses" -> "L" [] name = "ties" -> "T"

\* lines 379-384: a number, or the TypeError raised when no stat is found
getStatValue(stats, name) ==
    LET isStat(st) == Truthy(st) /\ (\/ Prop(st, "name") = JStr(<<name>>)
                                      \/ Prop(st, "abbreviation") = JStr(<<Abbreviation(name)>>))
        hit == {i \in 1..Len(stats) : isStat(stats[i])}
        stat == IF hit = {} THEN JUndefined
                ELSE stats[CHOOSE i \in hit : \A j \in hit : i <= j]
    IN  IF Truthy(stat) /\ Prop(stat, "value").t = "number" THEN Prop(stat, "value")
        ELSE IF Nullish(stat) THEN JTypeError
        ELSE IF Prop(stat, "value").t = "string" THEN JNum(ParseIntOr0(Prop(stat, "value").s))
        ELSE JNum(0)

\* teamRecord.stats.some(s => s.name === 'wins'): TRUE, FALSE or "throw"
RECURSIVE SomeWins(_)
SomeWins(stats) ==
    IF stats = <<>> THEN "false"
    ELSE IF Nullish(Head(stats)) THEN "throw"
    ELSE IF Prop(Head(stats), "name") = JStr(<<"wins">>) THEN "true"
    ELSE SomeWins(Tail(stats))

\* lines 372-399: the stats strategy and the final empty signal
StatsStrategy(teamRecord) ==
    LET stats == Prop(teamRecord, "stats")
    IN  IF ~(Truthy(stats) /\ IsArray(stats)) THEN JNull
        ELSE LET wins == getStatValue(stats.a, "wins")
                 losses == getStatValue(stats.a, "losses")
                 ties == getStatValue(stats.a, "ties")
             IN  IF wins.t = "throw" \/ losses.t = "throw" \/ ties.t = "throw" THEN JTypeError
                 ELSE IF wins.n > 0 \/ losses.n > 0 \/ ties.n > 0
                      THEN StandingsLine(wins.n, losses.n, ties.n, "Stats Array")
                 ELSE IF SomeWins(stats.a) = "throw" THEN JTypeError
                 ELSE IF SomeWins(stats.a) = "true"
                      THEN StandingsLine(wins.n, losses.n, ties.n, "Stats Array")
                 ELSE JNull

processStandingsData(data) ==
    IF ~Truthy(data) \/ data.t \notin {"object", "array"} THEN JNull
    ELSE LET teamRecord == LocateTeamRecord(data)
         IN  IF teamRecord.t = "throw" THEN teamRecord
             ELSE IF ~Truthy(teamRecord) THEN JNull
             ELSE LET summary == Prop(teamRecord, "summary")
                      summaryMatch == IF Truthy(summary) /\ summary.t = "string"
                                      THEN SummaryMatch(summary.s) ELSE <<>>
                  IN  IF summaryMatch # <<>>
                      THEN StandingsLine(DigitsValue(summaryMatch[1]), DigitsValue(summaryMatch[2]),
                                         DigitsValue(summaryMatch[3]), "Summary String")
                      ELSE StatsStrategy(teamRecord)

(* ------------------------------ the page ------------------------------- *)

VARIABLES
    html,          \* the markup of each section as the page is served
    dom,           \* the live document: one record per section
    localStorage,  \* window.localStorage: cache key -> JNull (no entry) or a string
    storageMode,   \* "ok", "denied" (access raises SecurityError) or "full" (setItem raises)
    run,           \* the invocation of fetchDataAndDisplay of each task
    console,       \* what each task has logged to the console
    loads,         \* page loads so far
    stored,        \* history: cache key -> the value the engine last passed to setItem
    previous,      \* history: how the run of each task ended in the page load before
    server         \* the serverless functions: the invocation being served and the log

vars == <<html, dom, localStorage, storageMode, run, console, loads, stored, previous, server>>

\* a section the page does not contain
Absent ==
    [exists |-> FALSE, loader |-> "none", errorEl |-> "none", errorText |-> <<>>,
     dataContent |-> FALSE, dataHtml |-> <<>>, ownHtml |-> <<>>]

\* a section as index.html declares it: a loader and a hidden error paragraph
Declared ==
    [exists |-> TRUE, loader |-> "visible", errorEl |-> "hidden",
     errorText |-> <<"Error al cargar los datos. Intentalo de nuevo mas tarde.">>,
     dataContent |-> FALSE, dataHtml |-> <<>>, ownHtml |-> <<>>]

\* a section that is an empty container
Bare == [Absent EXCEPT !.exists = TRUE]

Layouts == {Absent, Declared, Bare}

\* lines 438-465: give a section its loader, error message and content area
SetupSection(section) ==
    IF ~section.exists THEN section
    ELSE [section EXCEPT
            !.loader = IF section.loader = "none" THEN "hidden" ELSE @,
            !.errorEl = IF section.errorEl = "none" THEN "hidden" ELSE @,
            !.dataContent = TRUE]

InitialRun ==
    [pc |-> "unloaded", promise |-> "none", response |-> [kind |-> "none"],
     thrown |-> NoError, error |-> NoError, cachedData |-> JUndefined,
     loader |-> FALSE, errorMessageElement |-> FALSE, contentArea |-> "displayElement",
     fetches |-> 0, transforms |-> 0, reads |-> 0, writes |-> 0, exit |-> "none"]

(* --------------------------- network responses ------------------------- *)

StatusText(status) ==
    CASE status = 200 -> "OK" [] status = 401 -> "Unauthorized" [] status = 404 -> "Not Found"
      [] status = 500 -> "Internal Server Error"

JsonType == JStr(<<"application/json", "; charset=utf-8">>)

\* a body that JSON.parse rejects
JSyntaxError == [t |-> "throw", error |-> NativeError("SyntaxError", "Unexpected token < in JSON")]

Response(status, contentType, text, textFails, json) ==
    [status |-> status, statusText |-> StatusText(status), contentType |-> contentType,
     text |-> text, textFails |-> textFails, json |-> json]

\* the body of the proxy's error envelope
ErrorBody == <<"{error: Failed to fetch ESPN data. Request to ESPN API failed with status 401}">>
HtmlBody == <<"<!DOCTYPE html><html>not found</html>">>

\* the parsed bodies each endpoint is exercised with
Payloads(task) ==
    CASE task = "articles" ->
           {JObj([articles |-> JArr(<<JObj([title |-> JStr(<<"Camp report">>),
                                            link |-> JStr(<<"/a/1">>)])>>),
                  podcasts |-> JArr(<<>>)]),
            JObj([articles |-> JArr(<<>>), podcasts |-> JArr(<<>>)]),
            JObj([articles |-> JArr(<<JNull>>)]),
            JNull}
      [] task = "podcasts" ->
           {JObj([podcasts |-> JArr(<<JObj([title |-> JStr(<<"Episode 1">>),
                                            src |-> JStr(<<"/p/1.mp3">>)])>>)]),
            JObj([podcasts |-> JArr(<<JObj([title |-> JStr(<<"Episode 2">>)])>>)]),
            JObj([podcasts |-> JArr(<<JNull>>)]),
            JObj([articles |-> JArr(<<>>)])}
      [] task = "events" ->
           {JObj([events |-> JArr(<<JObj([name |-> JStr(<<"WSH at TB">>),
                                          date |-> JStr(<<"2024-09-08T20:25Z">>)])>>)]),
            JObj([events |-> JArr(<<>>)]),
            JObj([events |-> JArr(<<JStr(<<"x">>)>>)]),
            JObj([events |-> JArr(<<JObj([competitions |->
                      JArr(<<JObj([competitors |-> JObj([home |-> JNum(1)])])>>)])>>)])}
      [] task = "standings" ->
           {JObj([record |-> JObj([items |-> JArr(<<JObj([type |-> JStr(<<"total">>),
                      summary |-> JStr(<<"1", "1", "-", "5", "-", "1">>)])>>)])]),
            JObj([children |-> JArr(<<>>)]),
            JObj([records |-> JArr(<<JObj([name |-> JStr(<<"Overall">>),
                      stats |-> JArr(<<JObj([name |-> JStr(<<"wins">>), value |-> JNum(7)]),
                                       JObj([name |-> JStr(<<"losses">>), value |-> JNum(9)])>>)])>>)]),
            JObj([records |-> JArr(<<JNull>>)])}

\* what fetch(url) may resolve with
Responses(task) ==
    {Response(500, JsonType, ErrorBody, FALSE, JSyntaxError),
     Response(500, JsonType, ErrorBody, TRUE, JSyntaxError),
     Response(404, JStr(<<"text/html">>), HtmlBody, FALSE, JSyntaxError),
     Response(200, JNull, HtmlBody, FALSE, JSyntaxError),
     Response(200, JStr(<<"text/html">>), HtmlBody, TRUE, JSyntaxError),
     Response(200, JsonType, HtmlBody, FALSE, JSyntaxError)}
    \cup {Response(200, JsonType, <<"json">>, FALSE, data) : data \in Payloads(task)}

\* the exception a rejected fetch carries
FetchFailure == NativeError("TypeError", "Failed to fetch")

\* the transform each task passes to fetchDataAndDisplay
processDataFunction(task, data) ==
    CASE task = "articles" -> processArticles(data)
      [] task = "podcasts" -> processPodcasts(data)
      [] task = "events" -> processTeamEventsData(data)
      [] task = "standings" -> processStandingsData(data)

(* ------------------------ bodies of the endpoints ---------------------- *)

\* the lists of at most n elements of S
Lists(S, n) == UNION {[1..k -> S] : k \in 0..n}

\* an object without properties
NoFields == [f \in {} |-> JNull]

\* stands for a property an object literal leaves out
Missing == [t |-> "missing"]

\* the property f of an object literal, left out when v is Missing
With(f, v) == IF v.t = "missing" THEN NoFields ELSE f :> v

\* a field that is absent, or a list of at most n elements of S
OptionalLists(S, n) == {Missing} \cup {JArr(l) : l \in Lists(S, n)}

\* a string given character by character
Chars(s) == JStr(s)

Summary(w, l, t) == Chars(<<w, "-", l, "-", t>>)

\* entries of a standings table: another team, the tracked team
OtherEntry == JObj([team |-> JObj([id |-> JStr(<<"17">>)]), summary |-> Summary("9", "8", "0")])
CommandersEntry == JObj([team |-> JObj([id |-> JStr(<<TEAM_ID>>)]), summary |-> Summary("1", "0", "0")])

\* children of a standings body: tables without and with the tracked team
ChildKinds ==
    {JObj([standings |-> JObj([entries |-> JArr(<<OtherEntry>>)])]),
     JObj([standings |-> JObj([entries |-> JArr(<<OtherEntry, CommandersEntry>>)])])}

\* items of data.record.items
ItemKinds ==
    {JObj([type |-> JStr(<<"home">>), summary |-> Summary("6", "2", "0")]),
     JObj([type |-> JStr(<<"total">>), summary |-> Summary("2", "0", "0")])}

\* entries of data.records
RecordKinds ==
    {JObj([type |-> JStr(<<"road">>), summary |-> Summary("5", "3", "0")]),
     JObj([type |-> JStr(<<"total">>), summary |-> Summary("3", "0", "0")])}

StandingsBody(children, record, records) ==
    JObj(With("children", children) @@ With("record", record) @@ With("records", records))

\* standings bodies that differ in where a record can be found
StandingsShapes ==
    {StandingsBody(children, record, records) :
        children \in OptionalLists(ChildKinds, MaxEntries),
        record \in {Missing} \cup {JObj([items |-> JArr(l)]) : l \in Lists(ItemKinds, MaxEntries)},
        records \in OptionalLists(RecordKinds, MaxEntries)}
    \cup {JNull, JStr(<<"standings">>), JObj(NoFields),
          StandingsBody(JArr(<<JObj([name |-> JStr(<<"NFC">>)])>>), JObj(NoFields), Missing),
          StandingsBody(Missing, JObj([items |-> JArr(<<JObj([description |-> JStr(<<"Overall">>),
                                    summary |-> Summary("2", "1", "0")])>>)]), Missing),
          StandingsBody(Missing, Missing, JArr(<<JObj([name |-> JStr(<<"Overall">>),
                                    summary |-> Summary("3", "1", "0")])>>))}

\* the characters of a summary string
SummaryChars == {"1", "5", "-"}

\* the stats a record may list
StatKinds ==
    {JObj([name |-> JStr(<<"wins">>), value |-> JNum(7)]),
     JObj([name |-> JStr(<<"wins">>), value |-> JNum(0)]),
     JObj([name |-> JStr(<<"losses">>), value |-> JNum(9)]),
     JObj([name |-> JStr(<<"ties">>), value |-> JNum(0)]),
     JObj([abbreviation |-> JStr(<<"W">>), value |-> Chars(<<"0">>)]),
     JObj([abbreviation |-> JStr(<<"L">>), value |-> Chars(<<"n", "/", "a">>)]),
     JObj([abbreviation |-> JStr(<<"T">>), value |-> Chars(<<"1", "2">>)]),
     JObj([name |-> JStr(<<"pointsFor">>), value |-> JNum(310)])}

\* the stats lists a record may carry
StatsLists ==
    Lists(StatKinds, MaxStats)
    \cup {<<w, l, t>> :
            w \in {st \in StatKinds : Prop(st, "name") = JStr(<<"wins">>)
                                              \/ Prop(st, "abbreviation") = JStr(<<"W">>)},
            l \in {st \in StatKinds : Prop(st, "name") = JStr(<<"losses">>)
                                              \/ Prop(st, "abbreviation") = JStr(<<"L">>)},
            t \in {st \in StatKinds : Prop(st, "name") = JStr(<<"ties">>)
                                              \/ Prop(st, "abbreviation") = JStr(<<"T">>)}}

\* a standings body whose record.items holds one total item
TotalItem(fields) == JObj([record |-> JObj([items |-> JArr(<<JObj([type |-> JStr(<<"total">>)] @@ fields)>>)])])

\* standings bodies that differ in what the located record holds
StandingsRecords ==
    {TotalItem(With("summary", Chars(s))) : s \in Lists(SummaryChars, MaxSummaryLen)}
    \cup {TotalItem(With("summary", summary) @@ With("stats", JArr(stats))) :
            summary \in {Missing, Chars(<<"1", "0">>)}, stats \in StatsLists}
    \cup {TotalItem(With("summary", summary)) :
            summary \in {JNum(10), Chars(<<"0", "1", "-", "0", "5">>), Chars(<<"1", "-", "5", " ">>),
                         Chars(<<"W", "1", "-", "L", "5">>)}}

Team(abbreviation, displayName) ==
    JObj([abbreviation |-> JStr(<<abbreviation>>), displayName |-> JStr(<<displayName>>),
          logo |-> JStr(<<"/logos/", abbreviation, ".png">>)])

\* competitors of a competition; null stands for a hole in the list
CompetitorKinds ==
    {JObj([homeAway |-> JStr(<<"home">>), team |-> Team("WSH", "Washington Commanders"),
           score |-> JStr(<<"20">>)]),
     JObj([homeAway |-> JStr(<<"away">>), team |-> Team("TB", "Tampa Bay Buccaneers"),
           score |-> JStr(<<"17">>)]),
     JObj([homeAway |-> JStr(<<"home">>), team |-> JObj([name |-> JStr(<<"Cowboys">>)])]),
     JObj([homeAway |-> JStr(<<"away">>), score |-> JStr(<<"3">>)]),
     JObj([team |-> Team("PHI", "Philadelphia Eagles")]),
     JNull}

\* the status of a competition
StatusKinds ==
    {Missing,
     JObj(NoFields),
     JObj([type |-> JObj([completed |-> JBool(TRUE)])]),
     JObj([type |-> JObj([completed |-> JBool(TRUE), description |-> JStr(<<"Final">>)])]),
     JObj([type |-> JObj([completed |-> JBool(FALSE), description |-> JStr(<<"Scheduled">>)])]),
     JObj([type |-> JObj([completed |-> JBool(FALSE)])])}

Competition(competitors, status) ==
    JObj([competitors |-> JArr(competitors)] @@ With("status", status))

\* events with one competition
Games ==
    {JObj([name |-> JStr(<<"TB at WSH">>), date |-> JStr(<<"2024-09-08T20:25Z">>),
           competitions |-> JArr(<<Competition(competitors, status)>>)]) :
        competitors \in Lists(CompetitorKinds, MaxCompetitors), status \in StatusKinds}

\* entries of an events list: values that are not objects, incomplete events
\* and complete ones
EventKinds ==
    {JNull,
     JStr(<<"bye">>),
     JObj(NoFields),
     JObj([name |-> JStr(<<"WSH at NYG">>), date |-> JStr(<<"soon">>)]),
     JObj([name |-> JStr(<<"WSH at DAL">>), competitions |-> JArr(<<>>)]),
     JObj([date |-> JStr(<<"2024-12-01T18:00Z">>), competitions |-> JArr(<<JObj(NoFields)>>)]),
     JObj([name |-> JStr(<<"TB at WSH">>), date |-> JStr(<<"2024-09-08T20:25Z">>),
           competitions |-> JArr(<<Competition(
               <<JObj([homeAway |-> JStr(<<"away">>), team |-> Team("TB", "Tampa Bay Buccaneers"),
                       score |-> JStr(<<"17">>)]),
                 JObj([homeAway |-> JStr(<<"home">>), team |-> Team("WSH", "Washington Commanders"),
                       score |-> JStr(<<"20">>)])>>,
               JObj([type |-> JObj([completed |-> JBool(TRUE)])]))>>)])}

\* the bodies /api/espn-events is exercised with
EventsBodies ==
    {JNull, JObj(NoFields), JObj([events |-> JNull]), JObj([events |-> JObj(NoFields)]),
     JObj([events |-> JStr(<<"none">>)])}
    \cup {JObj([events |-> JArr(events)]) : events \in Lists(EventKinds, MaxEvents)}
    \cup {JObj([events |-> JArr(<<event>>)]) : event \in Games}

\* entries of a podcasts list
PodcastKinds ==
    {JObj([title |-> JStr(<<"Episode 1">>), src |-> JStr(<<"/p/1.mp3">>)]),
     JObj([src |-> JStr(<<"/p/2.mp3">>)]),
     JObj([title |-> JStr(<<"Episode 3">>)]),
     JObj([title |-> JStr(<<"Episode 4">>), src |-> JStr(<<>>)])}

\* the bodies /api/content is exercised with
ContentBodies ==
    {JObj(NoFields), JObj([podcasts |-> JNull, articles |-> JNull])}
    \cup {JObj([podcasts |-> JArr(podcasts), articles |-> JArr(<<>>)]) :
            podcasts \in Lists(PodcastKinds, MaxPodcasts)}
    \cup {JObj([podcasts |-> JArr(<<>>), articles |-> JArr(articles)]) :
            articles \in Lists({JObj([title |-> JStr(<<"Camp report">>)]),
                                 JObj([summary |-> JStr(<<"Week 1">>), link |-> JStr(<<"/a/2">>)])}, 2)}

\* the parsed bodies the endpoint of each task may answer with
Bodies(task) ==
    CASE task = "events" -> EventsBodies
      [] task = "standings" -> StandingsShapes \cup StandingsRecords
      [] OTHER -> ContentBodies

(* ------------------------- fetchDataAndDisplay ------------------------- *)

\* the state one invocation works on: its section, its own record, its console
\* output and the localStorage entry under its cache key
Ctx(task) ==
    [task |-> task, d |-> dom[task], r |-> run[task], log |-> console[task],
     item |-> localStorage[Request(task).cacheKey], mode |-> storageMode,
     stored |-> stored[Request(task).cacheKey]]

\* console.error / console.warn
Log(c, entry) == [c EXCEPT !.log = @ \cup {entry}]

\* contentArea.innerHTML = markup; on the display element itself this replaces
\* the loader and the error message too
SetInnerHTML(c, markup) ==
    IF c.r.contentArea = "data-content"
    THEN [c EXCEPT !.d.dataHtml = markup]
    ELSE [c EXCEPT !.d.ownHtml = markup, !.d.loader = "none", !.d.errorEl = "none",
                   !.d.errorText = <<>>, !.d.dataContent = FALSE, !.d.dataHtml = <<>>]

\* variant: the loader is left as the page has it
ShowLoaderNoop(c) == c

\* if (loader) loader.classList.remove('hidden')
ShowLoader(c) == IF c.r.loader /\ c.d.loader # "none" THEN [c EXCEPT !.d.loader = "visible"] ELSE c

\* variant: the loader is left as it is
HideLoaderNoop(c) == c

\* if (loader) loader.classList.add('hidden')
HideLoader(c) == IF c.r.loader /\ c.d.loader # "none" THEN [c EXCEPT !.d.loader = "hidden"] ELSE c

\* if (errorMessageElement) errorMessageElement.classList.add('hidden')
HideError(c) ==
    IF c.r.errorMessageElement /\ c.d.errorEl # "none" THEN [c EXCEPT !.d.errorEl = "hidden"] ELSE c

\* variant: the error is logged and nothing is shown
showErrorLogOnly(c, message) ==
    Log(c, <<"[", Request(c.task).elementId, "] Error:">> \o message)

\* variant: the content area is left as it is
showErrorKeepContent(c, message) ==
    LET logged == Log(c, <<"[", Request(c.task).elementId, "] Error:">> \o message)
    IN  IF logged.r.errorMessageElement
        THEN IF logged.d.errorEl # "none"
             THEN [logged EXCEPT !.d.errorText = message, !.d.errorEl = "visible"]
             ELSE logged
        ELSE SetInnerHTML(logged, <<"<p>">> \o message \o <<"</p>">>)

\* lines 56-70
showError(c, message) ==
    LET logged == Log(c, <<"[", Request(c.task).elementId, "] Error:">> \o message)
        shown == IF logged.r.errorMessageElement
                 THEN IF logged.d.errorEl # "none"
                      THEN [logged EXCEPT !.d.errorText = message, !.d.errorEl = "visible"]
                      ELSE logged
                 ELSE SetInnerHTML(logged, <<"<p>">> \o message \o <<"</p>">>)
    IN  IF shown.r.errorMessageElement /\ shown.r.contentArea # "displayElement"
        THEN SetInnerHTML(shown, <<>>)
        ELSE shown

\* throw e
Throw(c, e) == [c EXCEPT !.r.thrown = e]

\* variant: only tagged errors are handled, anything else propagates
catchBlockRethrow(c) ==
    IF c.r.thrown.name = "FetchDataError"
    THEN showError([c EXCEPT !.r.thrown = NoError, !.r.error = c.r.thrown], c.r.thrown.message)
    ELSE [c EXCEPT !.r.error = c.r.thrown]

\* lines 144-153: the catch clause handles whatever the try block raised
catchBlock(c) ==
    LET error == c.r.thrown
        caught == [c EXCEPT !.r.thrown = NoError, !.r.error = error]
    IN  IF error.name = "FetchDataError"
        THEN showError(caught, error.message)
        ELSE showError(Log(caught, <<"[", Request(c.task).elementId,
                                     "] Unexpected error in fetchDataAndDisplay:">> \o error.message),
                       UnexpectedErrorMessage)

\* lines 154-158: the finally clause, then the promise of the async function
\* settles: fulfilled unless an exception is still propagating
finallyBlock(c, exit) ==
    LET hidden == HideLoader(c)
    IN  [hidden EXCEPT !.r.pc = "done", !.r.exit = exit,
                       !.r.promise = IF hidden.r.thrown = NoError THEN "resolved" ELSE "rejected"]

\* an exception raised inside the try block: catch, then finally
Fail(c, e) == finallyBlock(catchBlock(Throw(c, e)), "error")

\* variant: the lookup result is not tested
TargetFoundAlways(c) == TRUE

\* line 39: document.getElementById(elementId) found the display element
TargetFound(c) == c.d.exists

\* variant: the cache is never consulted
CacheHitNever(cachedData) == FALSE

\* line 81: if (cachedData)
CacheHit(cachedData) == Truthy(cachedData)

\* variant: the cached fragment is wrapped in a paragraph again
CachedMarkupWrapped(cachedData) == <<"<p>">> \o Text(cachedData) \o <<"</p>">>

\* line 82: the markup a cache hit writes into the content area
CachedMarkup(cachedData) == Text(cachedData)

\* lines 38-90: from the call to the first await
fetchDataAndDisplay(c) ==
    IF ~TargetFound(c)
    THEN [Log(c, <<"[", Request(c.task).elementId, "] Element not found. Cannot display data.">>)
            EXCEPT !.r.pc = "done", !.r.exit = "aborted", !.r.promise = "resolved"]
    ELSE
    LET refs == [c EXCEPT !.r.loader = c.d.loader # "none",
                          !.r.errorMessageElement = c.d.errorEl # "none",
                          !.r.contentArea = IF c.d.dataContent THEN "data-content"
                                            ELSE "displayElement",
                          !.r.promise = "pending"]
        loading == HideError(ShowLoader(refs))
        cleared == IF loading.r.contentArea # "displayElement"
                   THEN SetInnerHTML(loading, <<>>) ELSE loading
        reading == [cleared EXCEPT !.r.reads = @ + 1]
        cachedData == reading.item
        read == [reading EXCEPT !.r.cachedData = cachedData]
    IN  IF c.mode = "denied"
        THEN Fail(reading, NativeError("SecurityError", "The operation is insecure."))
        ELSE IF CacheHit(cachedData)
             THEN finallyBlock(HideLoader(SetInnerHTML(read, CachedMarkup(cachedData))), "cache")
             ELSE [read EXCEPT !.r.pc = "fetch", !.r.fetches = @ + 1]

\* lines 91-95: fetch rejected
onFetchRejected(c, networkError) ==
    Fail(Log(c, <<"[", Request(c.task).elementId, "] Network error while fetching ",
                  Request(c.task).url, ":">> \o networkError.message),
         FetchDataError(NetworkErrorMessage, "NetworkError", JUndefined))

\* variant: only server errors are refused
OkBelow500(response) == response.status < 500

\* response.ok
Ok(response) == response.status \in 200..299

\* lines 97-115: fetch resolved; the checks up to the next await
onResponse(c, response) ==
    LET got == [c EXCEPT !.r.response = response]
    IN  IF ~Ok(response) THEN [got EXCEPT !.r.pc = "errorText"]
        ELSE IF \/ ~Truthy(response.contentType)
                \/ ~Includes(response.contentType.s, "application/json")
             THEN [got EXCEPT !.r.pc = "responseText"]
        ELSE [got EXCEPT !.r.pc = "json"]

\* lines 99-102: response.text() settled on a non-2xx response
onErrorText(c) ==
    LET response == c.r.response
        errorText == IF response.textFails
                     THEN <<"Could not retrieve error details from response body.">>
                     ELSE response.text
    IN  Fail(Log(c, <<"[", Request(c.task).elementId, "] HTTP error ", ToString(response.status),
                      " while fetching ", Request(c.task).url, ": ">> \o errorText),
             FetchDataError(HttpErrorMessage(response), "HttpError", JNum(response.status)))

\* lines 107-110: response.text() settled on a response that is not JSON
onResponseText(c) ==
    LET response == c.r.response
        responseText == IF response.textFails
                        THEN <<"Response was not valid JSON and its text could not be read.">>
                        ELSE response.text
    IN  Fail(Log(c, <<"[", Request(c.task).elementId, "] Invalid content type. Expected JSON, got ">>
                      \o Text(response.contentType) \o <<". Response text: ">> \o responseText),
             FetchDataError(ContentTypeErrorMessage, "JsonParseError", JUndefined))

\* variant: every string counts as content
HasContentAnyString(htmlContent) == htmlContent.t = "string"

\* line 136: htmlContent && htmlContent.trim() !== '' for null or a string
HasContent(htmlContent) == Truthy(htmlContent) /\ ~IsBlank(htmlContent.s)

\* variant: the parsed data is cached in place of the markup
CachedValueRaw(htmlContent) == JStr(<<"[object Object]">>)

\* line 138: the value setItem is given
CachedValue(htmlContent) == htmlContent

\* variant: what is shown is cached, the empty message included
renderCachingAll(c, htmlContent) ==
    IF Truthy(htmlContent) /\ htmlContent.t # "string"
    THEN Fail(c, NativeError("TypeError", "htmlContent.trim is not a function"))
    ELSE LET markup == IF HasContent(htmlContent) THEN htmlContent.s
                       ELSE <<"<p>", Request(c.task).emptyDataMessage, "</p>">>
             shown == SetInnerHTML(c, markup)
         IN  IF c.mode = "full"
             THEN Fail(shown, NativeError("QuotaExceededError", "The quota has been exceeded."))
             ELSE finallyBlock([shown EXCEPT !.item = JStr(markup), !.stored = JStr(markup),
                                             !.r.writes = @ + 1],
                               IF HasContent(htmlContent) THEN "data" ELSE "empty")

\* lines 135-142: show the fragment and cache it, or show the empty message
render(c, htmlContent) ==
    IF Truthy(htmlContent) /\ htmlContent.t # "string"
    THEN Fail(c, NativeError("TypeError", "htmlContent.trim is not a function"))
    ELSE IF HasContent(htmlContent)
    THEN LET shown == SetInnerHTML(c, htmlContent.s)
         IN  IF c.mode = "full"
             THEN Fail(shown, NativeError("QuotaExceededError", "The quota has been exceeded."))
             ELSE finallyBlock([shown EXCEPT !.item = CachedValue(htmlContent),
                                             !.stored = CachedValue(htmlContent),
                                             !.r.writes = @ + 1], "data")
    ELSE finallyBlock(SetInnerHTML(c, <<"<p>", Request(c.task).emptyDataMessage, "</p>">>), "empty")

\* variant: the exception of the transform is rethrown as it is
ProcessingErrorRaw(processingError) == processingError

\* lines 128-132: a FetchDataError is rethrown, anything else is wrapped
ProcessingError(processingError) ==
    IF processingError.name = "FetchDataError"
    THEN processingError
    ELSE FetchDataError(ProcessingErrorMessage, "DataProcessingError", JUndefined)

\* lines 121-133: run the transform on the parsed body
process(c, data) ==
    LET called == [c EXCEPT !.r.transforms = @ + 1]
        htmlContent == processDataFunction(c.task, data)
    IN  IF htmlContent.t = "throw"
        THEN LET logged == Log(called, <<"[", Request(c.task).elementId, "] Error processing data for ",
                                         Request(c.task).elementId, ":">> \o htmlContent.error.message)
             IN  Fail(logged, ProcessingError(htmlContent.error))
        ELSE render(called, htmlContent)

\* variant: a body that does not parse is processed as an empty object
onJsonLenient(c) ==
    IF c.r.response.json.t = "throw" THEN process(c, JObj(NoFields)) ELSE process(c, c.r.response.json)

\* lines 112-119: response.json() settled
onJson(c) ==
    LET response == c.r.response
    IN  IF response.json.t = "throw"
        THEN Fail(Log(c, <<"[", Request(c.task).elementId, "] Error parsing JSON from ",
                           Request(c.task).url, ":">> \o response.json.error.message),
                  FetchDataError(JsonParseErrorMessage, "JsonParseError", JUndefined))
        ELSE process(c, response.json)

(* ------------------------ the serverless proxy ------------------------- *)

\* the functions under /api
Handlers == {"events", "standings", "content"}

ESPN_API_BASE_URL == "http://site.api.espn.com/apis/site/v2"

\* API_PATH of the two ESPN handlers
API_PATH(name) ==
    CASE name = "events" -> "sports/football/nfl/teams/28/schedule"
      [] name = "standings" -> "sports/football/nfl/standings"

\* queryParams of the two ESPN handlers, as URLSearchParams writes them
QueryString(name) ==
    CASE name = "events" -> "seasontype=2&groups=all&limit=500"
      [] name = "standings" -> "groups=all&limit=500"

\* what process.env.ESPN_API_KEY may be: not set, set to nothing, or a key
Credential == "0123456789abcdef"
Environments == {JUndefined, JStr(<<>>), JStr(<<Credential>>)}

\* data/content.json as the deployment bundles it
ContentDocuments == Payloads("articles")

\* no invocation is being served; the log of the function is empty
Idle(key) ==
    [pc |-> "idle", handler |-> "none", env |-> key, url |-> <<>>,
     response |-> [kind |-> "none"], requested |-> <<>>, sent |-> <<>>,
     log |-> {}, served |-> 0]

\* console.error / console.warn on the server
ServerLog(s, entry) == [s EXCEPT !.log = @ \cup {entry}]

\* res.status(status).json(body)
Send(s, status, body) ==
    [s EXCEPT !.sent = Append(@, [status |-> status, body |-> body]), !.pc = "done"]

\* the text each handler puts before error.message
FailurePrefix(name) ==
    CASE name = "events" -> "Failed to fetch ESPN team events. "
      [] name = "standings" -> "Failed to fetch ESPN nfl standings. "

\* what each handler logs before error.message
FailureLogPrefix(name) ==
    CASE name = "events" -> "Error in espn-events handler (fetching team schedule for ID 28):"
      [] name = "standings" -> "Error in espn-standings handler (fetching nfl standings):"

\* variant: the envelope carries the details next to the message
ErrorEnvelopeDetailed(name, message) ==
    JObj([error |-> JStr(<<FailurePrefix(name)>>), details |-> JStr(message)])

\* { error: `Failed to fetch ... ${error.message}` }
ErrorEnvelope(name, message) == JObj([error |-> JStr(<<FailurePrefix(name)>> \o message)])

\* the catch clause of the two ESPN handlers
handlerCatch(s, message) ==
    Send(ServerLog(s, <<FailureLogPrefix(s.handler)>> \o message),
         500, ErrorEnvelope(s.handler, message))

ConfigurationMessage ==
    <<"ESPN_API_KEY is not defined in environment variables. This is a server configuration issue.">>
UpstreamNetworkMessage ==
    <<"A network error occurred while trying to reach the ESPN API. Please check connectivity.">>
UpstreamJsonMessage == <<"Failed to parse a supposedly valid JSON response from the ESPN API.">>

\* variant: the body of the upstream answer is appended to the message
UpstreamStatusMessageWithBody(response, errorBody) ==
    <<"Request to ESPN API failed with status ", ToString(response.status), " (",
      response.statusText, "). ">> \o errorBody

\* `Request to ESPN API failed with status ${response.status} (${response.statusText}).`
UpstreamStatusMessage(response, errorBody) ==
    <<"Request to ESPN API failed with status ", ToString(response.status), " (",
      response.statusText, ").">>

\* variant: only a variable that is not set counts as missing
HasCredentialDefined(key) == key.t # "undefined"

\* part_001 line 24: if (!API_KEY) is not taken
HasCredential(key) == Truthy(key)

\* part_001 lines 31-33: the URL of the upstream request
EspnUrl(name, key) ==
    <<ESPN_API_BASE_URL, "/", API_PATH(name), "?", QueryString(name), "&apikey=">> \o Text(key)

\* part_001 lines 20-38: fetchEspnApi from the call to the fetch
fetchEspnApi(s) ==
    IF ~HasCredential(s.env)
    THEN handlerCatch(s, ConfigurationMessage)
    ELSE LET url == EspnUrl(s.handler, s.env)
         IN  [s EXCEPT !.url = url, !.requested = Append(@, url), !.pc = "fetch"]

\* a handler is invoked; it runs to its response or to the fetch
handler(s, name, content) ==
    LET invoked == [s EXCEPT !.handler = name, !.url = <<>>, !.response = [kind |-> "none"],
                             !.requested = <<>>, !.sent = <<>>, !.served = @ + 1]
    IN  IF name = "content" THEN Send(invoked, 200, content) ELSE fetchEspnApi(invoked)

\* part_001 lines 39-45: the fetch rejected
onUpstreamRejected(s, networkError) ==
    handlerCatch(ServerLog(s, <<"Network error while fetching ESPN API at ">> \o s.url
                              \o <<":">> \o networkError.message),
                 UpstreamNetworkMessage)

\* part_001 line 48: the fetch resolved
onUpstreamResponse(s, response) ==
    [s EXCEPT !.response = response, !.pc = IF ~Ok(response) THEN "errorText" ELSE "json"]

\* part_001 lines 49-62: response.text() settled on a non-2xx answer
onUpstreamText(s) ==
    LET response == s.response
        warned == IF response.textFails
                  THEN ServerLog(s, <<"Failed to read error response body from ">> \o s.url
                                    \o <<" (Status: ", ToString(response.status), "):">>)
                  ELSE s
        errorBody == IF response.textFails THEN <<>> ELSE response.text
    IN  handlerCatch(ServerLog(warned, <<"Error fetching from ESPN API at ">> \o s.url
                                       \o <<". Status: ", ToString(response.status), " ",
                                            response.statusText, ". Body: ">> \o errorBody),
                     UpstreamStatusMessage(response, errorBody))

\* part_001 lines 64-74 and the handler's line 35: response.json() settled
onUpstreamJson(s) ==
    IF s.response.json.t = "throw"
    THEN handlerCatch(ServerLog(s, <<"Error parsing JSON response from ESPN API at ">> \o s.url
                                   \o <<":">> \o s.response.json.error.message),
                      UpstreamJsonMessage)
    ELSE Send(s, 200, s.response.json)

\* the body of an upstream refusal
UpstreamErrorBody == <<"{\"code\":401,\"message\":\"invalid apikey ", Credential, "\"}">>

\* what the ESPN API may answer
UpstreamResponses(name) ==
    {Response(401, JsonType, UpstreamErrorBody, FALSE, JSyntaxError),
     Response(500, JStr(<<"text/html">>), HtmlBody, TRUE, JSyntaxError),
     Response(200, JStr(<<"text/html">>), HtmlBody, FALSE, JSyntaxError)}
    \cup {Response(200, JsonType, <<"json">>, FALSE, data) : data \in Payloads(name)}

(* ------------------------------- actions ------------------------------- *)

\* variant: an error is shown in the error message of every section
CommitPageWide(c) ==
    /\ dom' = [task \in Tasks |->
                  IF task = c.task THEN c.d
                  ELSE IF c.r.exit = "error" /\ dom[task].errorEl # "none"
                       THEN [dom[task] EXCEPT !.errorEl = "visible", !.errorText = c.d.errorText]
                       ELSE dom[task]]
    /\ run' = [run EXCEPT ![c.task] = c.r]
    /\ console' = [console EXCEPT ![c.task] = c.log]
    /\ localStorage' = [localStorage EXCEPT ![Request(c.task).cacheKey] = c.item]
    /\ stored' = [stored EXCEPT ![Request(c.task).cacheKey] = c.stored]
    /\ UNCHANGED <<html, storageMode, loads, previous, server>>

\* what an invocation leaves behind for its task
Commit(c) ==
    /\ dom' = [dom EXCEPT ![c.task] = c.d]
    /\ run' = [run EXCEPT ![c.task] = c.r]
    /\ console' = [console EXCEPT ![c.task] = c.log]
    /\ localStorage' = [localStorage EXCEPT ![Request(c.task).cacheKey] = c.item]
    /\ stored' = [stored EXCEPT ![Request(c.task).cacheKey] = c.stored]
    /\ UNCHANGED <<html, storageMode, loads, previous, server>>

Present(layout) == {task \in Tasks : layout[task].exists}

\* what localStorage may hold under a key when the page is first opened
StoredItems == {JNull, JStr(<<>>), JStr(<<" ">>), JStr(<<"<p>stored earlier</p>">>)}

Init ==
    /\ html \in {layout \in [Tasks -> Layouts] :
                    /\ Cardinality(Present(layout)) <= MaxSections
                    /\ \E style \in {Declared, Bare} :
                          \A task \in Tasks : layout[task] \in {Absent, style}}
    /\ dom = html
    /\ localStorage \in {store \in [CacheKeys -> StoredItems] :
                            \A task \in Tasks \ Present(html) :
                                store[Request(task).cacheKey] = JNull}
    /\ storageMode \in {"ok", "denied", "full"}
    /\ run = [task \in Tasks |-> InitialRun]
    /\ console = [task \in Tasks |-> {}]
    /\ loads = 0
    /\ stored = [key \in CacheKeys |-> JNull]
    /\ previous = [task \in Tasks |-> "none"]
    /\ server = Idle(JUndefined)

\* variant: the cache is emptied when the page starts
DOMContentLoadedClearing ==
    /\ loads < MaxLoads
    /\ \A task \in Tasks : run[task].pc = "unloaded"
    /\ LET started(task) == fetchDataAndDisplay([Ctx(task) EXCEPT !.d = SetupSection(dom[task]),
                                                                  !.item = JNull])
       IN  /\ dom' = [task \in Tasks |-> started(task).d]
           /\ run' = [task \in Tasks |-> started(task).r]
           /\ console' = [task \in Tasks |-> started(task).log]
    /\ loads' = loads + 1
    /\ localStorage' = [key \in CacheKeys |-> JNull]
    /\ UNCHANGED <<html, storageMode, stored, previous, server>>

\* lines 433-471: the sections are completed, then the four tasks are started;
\* each runs up to its first await before the next one starts
DOMContentLoaded ==
    /\ loads < MaxLoads
    /\ \A task \in Tasks : run[task].pc = "unloaded"
    /\ LET started(task) == fetchDataAndDisplay([Ctx(task) EXCEPT !.d = SetupSection(dom[task])])
       IN  /\ dom' = [task \in Tasks |-> started(task).d]
           /\ run' = [task \in Tasks |-> started(task).r]
           /\ console' = [task \in Tasks |-> started(task).log]
    /\ loads' = loads + 1
    /\ UNCHANGED <<html, localStorage, storageMode, stored, previous, server>>

\* the user reloads the page once its tasks have completed: the document is
\* rebuilt, localStorage survives
Reload ==
    /\ loads < MaxLoads
    /\ \A task \in Tasks : run[task].pc = "done"
    /\ dom' = html
    /\ run' = [task \in Tasks |-> InitialRun]
    /\ console' = [task \in Tasks |-> {}]
    /\ previous' = [task \in Tasks |-> run[task].exit]
    /\ UNCHANGED <<html, localStorage, storageMode, loads, stored, server>>

FetchRejects(task) ==
    /\ run[task].pc = "fetch"
    /\ Commit(onFetchRejected(Ctx(task), FetchFailure))

FetchResolves(task) ==
    /\ run[task].pc = "fetch"
    /\ \E response \in Responses(task) : Commit(onResponse(Ctx(task), response))

ErrorTextSettles(task) ==
    /\ run[task].pc = "errorText"
    /\ Commit(onErrorText(Ctx(task)))

ResponseTextSettles(task) ==
    /\ run[task].pc = "responseText"
    /\ Commit(onResponseText(Ctx(task)))

JsonSettles(task) ==
    /\ run[task].pc = "json"
    /\ Commit(onJson(Ctx(task)))

Next ==
    \/ DOMContentLoaded
    \/ Reload
    \/ \E task \in Tasks : FetchRejects(task)
    \/ \E task \in Tasks : FetchResolves(task)
    \/ \E task \in Tasks : ErrorTextSettles(task)
    \/ \E task \in Tasks : ResponseTextSettles(task)
    \/ \E task \in Tasks : JsonSettles(task)

Spec == Init /\ [][Next]_vars

(* ------------- one page load against well-formed endpoints ------------- *)

\* a page as index.html declares it, holding one of the sections, opened with
\* an empty localStorage
InitFresh ==
    /\ html \in {layout \in [Tasks -> {Absent, Declared}] : Cardinality(Present(layout)) = 1}
    /\ dom = html
    /\ localStorage = [key \in CacheKeys |-> JNull]
    /\ storageMode = "ok"
    /\ run = [task \in Tasks |-> InitialRun]
    /\ console = [task \in Tasks |-> {}]
    /\ loads = 0
    /\ stored = [key \in CacheKeys |-> JNull]
    /\ previous = [task \in Tasks |-> "none"]
    /\ server = Idle(JUndefined)

\* fetch resolves with a 200 JSON response carrying one of the bodies
FetchAnswers(task) ==
    /\ run[task].pc = "fetch"
    /\ \E data \in Bodies(task) :
          Commit(onResponse(Ctx(task), Response(200, JsonType, <<"json">>, FALSE, data)))

NextFresh ==
    \/ DOMContentLoaded
    \/ \E task \in Tasks : FetchAnswers(task)
    \/ \E task \in Tasks : JsonSettles(task)

SpecFresh == InitFresh /\ [][NextFresh]_vars

(* ---------------- one page load with the four sections ----------------- *)

\* the page as index.html declares it: the four sections, each with its loader
\* and its error message, opened with an empty localStorage
InitPage ==
    /\ html = [task \in Tasks |-> Declared]
    /\ dom = html
    /\ localStorage = [key \in CacheKeys |-> JNull]
    /\ storageMode \in {"ok", "denied", "full"}
    /\ run = [task \in Tasks |-> InitialRun]
    /\ console = [task \in Tasks |-> {}]
    /\ loads = 0
    /\ stored = [key \in CacheKeys |-> JNull]
    /\ previous = [task \in Tasks |-> "none"]
    /\ server = Idle(JUndefined)

\* a response with an error status, one that is not JSON, and the bodies of
\* Payloads
PageResponses(task) ==
    {Response(500, JsonType, ErrorBody, FALSE, JSyntaxError),
     Response(200, JStr(<<"text/html">>), HtmlBody, TRUE, JSyntaxError)}
    \cup {Response(200, JsonType, <<"json">>, FALSE, data) : data \in Payloads(task)}

\* fetch resolves with one of them
FetchReplies(task) ==
    /\ run[task].pc = "fetch"
    /\ \E response \in PageResponses(task) : Commit(onResponse(Ctx(task), response))

NextPage ==
    \/ DOMContentLoaded
    \/ \E task \in Tasks : FetchRejects(task)
    \/ \E task \in Tasks : FetchReplies(task)
    \/ \E task \in Tasks : ErrorTextSettles(task)
    \/ \E task \in Tasks : ResponseTextSettles(task)
    \/ \E task \in Tasks : JsonSettles(task)

Suspended(task) == run[task].pc \in {"fetch", "errorText", "responseText", "json"}

\* the suspended run of the task is resumed: its position moves on. Every step
\* FetchRejects, FetchReplies, ErrorTextSettles, ResponseTextSettles and
\* JsonSettles takes for the task is such a step, and no other step is; the
\* first disjunct is one more such step, written out so that the action is
\* seen to be enabled exactly while the run is suspended
Resumed(task) ==
    /\ Suspended(task)
    /\ \/ /\ run' = [run EXCEPT ![task].pc = "done"]
          /\ UNCHANGED <<html, dom, localStorage, storageMode, console, loads, stored, previous, server>>
       \/ run'[task].pc # run[task].pc

\* every fetch settles, with a response or a failure, and so does every read
\* of a response body: no run stays suspended for ever
FetchesComplete == \A task \in Tasks : WF_vars(Resumed(task))

SpecPage == InitPage /\ [][NextPage]_vars /\ FetchesComplete

(* ------------------------ the proxy on its own ------------------------- *)

\* the functions are deployed with some environment; no page is open
InitProxy ==
    /\ html = [task \in Tasks |-> Absent]
    /\ dom = html
    /\ localStorage = [key \in CacheKeys |-> JNull]
    /\ storageMode = "ok"
    /\ run = [task \in Tasks |-> InitialRun]
    /\ console = [task \in Tasks |-> {}]
    /\ loads = 0
    /\ stored = [key \in CacheKeys |-> JNull]
    /\ previous = [task \in Tasks |-> "none"]
    /\ server \in {Idle(key) : key \in Environments}

page == <<html, dom, localStorage, storageMode, run, console, loads, stored, previous>>

\* a request arrives at one of the functions
Invoke(name) ==
    /\ server.pc \in {"idle", "done"}
    /\ server.served < MaxInvocations
    /\ \E content \in ContentDocuments : server' = handler(server, name, content)
    /\ UNCHANGED page

UpstreamRejects ==
    /\ server.pc = "fetch"
    /\ server' = onUpstreamRejected(server, FetchFailure)
    /\ UNCHANGED page

UpstreamResponds ==
    /\ server.pc = "fetch"
    /\ \E response \in UpstreamResponses(server.handler) :
          server' = onUpstreamResponse(server, response)
    /\ UNCHANGED page

UpstreamTextSettles ==
    /\ server.pc = "errorText"
    /\ server' = onUpstreamText(server)
    /\ UNCHANGED page

UpstreamJsonSettles ==
    /\ server.pc = "json"
    /\ server' = onUpstreamJson(server)
    /\ UNCHANGED page

NextProxy ==
    \/ \E name \in Handlers : Invoke(name)
    \/ UpstreamRejects
    \/ UpstreamResponds
    \/ UpstreamTextSettles
    \/ UpstreamJsonSettles

SpecProxy == InitProxy /\ [][NextProxy]_vars

(* ------------------------------ properties ----------------------------- *)

Key(task) == Request(task).cacheKey
Done(task) == run[task].pc = "done"
HasResponse(task) == "status" \in DOMAIN run[task].response
\* what the transform of the task returned in this run (once it has been called)
Fragment(task) == processDataFunction(task, run[task].response.json)
\* null, the empty string or a string of white space only
EmptySignal(v) == v.t = "null" \/ (v.t = "string" /\ IsBlank(v.s))
EmptyMarkup(task) == <<"<p>", Request(task).emptyDataMessage, "</p>">>

C2_CacheIdempotence ==
    \A task \in Tasks :
        stored[Key(task)] # JNull =>
            /\ localStorage[Key(task)] = stored[Key(task)]
            /\ (run[task].pc # "unloaded" /\ run[task].writes = 0) =>
                  /\ Done(task) /\ run[task].exit = "cache"
                  /\ dom[task].dataHtml = stored[Key(task)].s
                  /\ run[task].fetches = 0
                  /\ run[task].transforms = 0

C2_Witness ==
    \E task \in Tasks :
        /\ loads = 2 /\ previous[task] = "data"
        /\ stored[Key(task)] # JNull
        /\ run[task].exit = "cache" /\ run[task].writes = 0
        /\ dom[task].dataHtml = stored[Key(task)].s

\* C3: when the transform returns the empty signal, the run shows the empty
\* message and writes nothing to the cache, and the next run for the key fetches
\* from the network again.
C3_EmptyNeverCached ==
    \A task \in Tasks :
        /\ (Done(task) /\ run[task].transforms = 1 /\ EmptySignal(Fragment(task))) =>
              /\ run[task].exit = "empty"
              /\ dom[task].dataHtml = EmptyMarkup(task)
              /\ run[task].writes = 0
              /\ localStorage[Key(task)] = run[task].cachedData
              /\ stored[Key(task)] = JNull
        /\ (previous[task] = "empty" /\ run[task].pc # "unloaded") =>
              /\ ~Truthy(run[task].cachedData)
              /\ run[task].fetches = 1

C3_Witness ==
    \E task \in Tasks :
        /\ previous[task] = "empty" /\ run[task].fetches = 1
        /\ run[task].exit = "empty" /\ Fragment(task) = JStr(<<>>)
        /\ localStorage[Key(task)] = JNull

\* C4 as stated: when the fetch succeeds, the body parses and the transform
\* returns a non-empty fragment F, the run ends with the content area showing F
\* and the cache holding F.
C4_DataShownAndCached ==
    \A task \in Tasks :
        (Done(task) /\ run[task].transforms = 1 /\ Fragment(task).t = "string"
            /\ ~EmptySignal(Fragment(task))) =>
            /\ run[task].exit = "data"
            /\ dom[task].dataHtml = Fragment(task).s
            /\ localStorage[Key(task)] = Fragment(task)

\* C4 amended: in that case, if localStorage.setItem does not raise, the run
\* ends with the content area showing F and the cache holding F; if setItem
\* raises, the run ends in the generic error state with the content area
\* cleared and the cache as it was.
C4_DataShownAndCachedUnlessWriteFails ==
    \A task \in Tasks :
        (Done(task) /\ run[task].transforms = 1 /\ Fragment(task).t = "string"
            /\ ~EmptySignal(Fragment(task))) =>
            IF storageMode # "full"
            THEN /\ run[task].exit = "data"
                 /\ dom[task].dataHtml = Fragment(task).s
                 /\ localStorage[Key(task)] = Fragment(task)
            ELSE /\ run[task].exit = "error"
                 /\ run[task].error.name = "QuotaExceededError"
                 /\ dom[task].errorText = UnexpectedErrorMessage
                 /\ dom[task].dataHtml = <<>>
                 /\ localStorage[Key(task)] = run[task].cachedData

C4_Witness ==
    \E task \in Tasks :
        /\ Done(task) /\ run[task].exit = "data" /\ run[task].writes = 1
        /\ Fragment(task).t = "string" /\ Len(Fragment(task).s) > 0
        /\ dom[task].dataHtml = Fragment(task).s
        /\ localStorage[Key(task)] = Fragment(task)

\* C5: every run whose display target exists leaves the loader hidden when it
\* completes, on every exit path.
C5_LoaderHiddenOnExit ==
    \A task \in Tasks :
        /\ (Done(task) /\ dom[task].exists) => dom[task].loader = "hidden"
        /\ run[task].pc \in {"fetch", "errorText", "responseText", "json"} =>
              dom[task].loader = "visible"

C5_Witness ==
    \E task \in Tasks :
        /\ Done(task) /\ run[task].exit = "error" /\ run[task].error.type = "HttpError"
        /\ run[task].loader /\ dom[task].loader = "hidden"

\* C6: the promise returned by fetchDataAndDisplay never rejects; every failure,
\* cache read and write exceptions included, ends as the error state of the
\* section.
C6_NeverThrowsOutward ==
    \A task \in Tasks :
        /\ run[task].promise # "rejected"
        /\ Done(task) => (run[task].promise = "resolved" /\ run[task].thrown = NoError)
        /\ run[task].exit = "error" =>
              (run[task].error # NoError /\ dom[task].errorEl = "visible")

C6_Witness ==
    \E task \in Tasks :
        /\ Done(task) /\ run[task].error.name = "QuotaExceededError"
        /\ run[task].promise = "resolved" /\ dom[task].errorEl = "visible"

\* C7: on a cache miss a rejected fetch is a NetworkError, a non-2xx response an
\* HttpError carrying the status, a 2xx response without a JSON content type or
\* with an unparsable body the format error; the checks apply in that order and
\* every outcome has exactly one tag, unlike untagged errors.
C7_ErrorClassification ==
    \A task \in Tasks :
        (Done(task) /\ run[task].fetches = 1) =>
            LET response == run[task].response
                error == run[task].error
                jsonType == /\ Truthy(response.contentType)
                            /\ Includes(response.contentType.s, "application/json")
            IN  /\ ~HasResponse(task) =>
                      error = FetchDataError(NetworkErrorMessage, "NetworkError", JUndefined)
                /\ (HasResponse(task) /\ response.status \notin 200..299) =>
                      /\ error.name = "FetchDataError" /\ error.type = "HttpError"
                      /\ error.status = JNum(response.status)
                /\ (HasResponse(task) /\ response.status \in 200..299 /\ ~jsonType) =>
                      error = FetchDataError(ContentTypeErrorMessage, "JsonParseError", JUndefined)
                /\ (HasResponse(task) /\ response.status \in 200..299 /\ jsonType
                        /\ response.json.t = "throw") =>
                      error = FetchDataError(JsonParseErrorMessage, "JsonParseError", JUndefined)
                /\ error.name = "FetchDataError" <=> error.type # ""

C7_Witness ==
    \E task \in Tasks :
        /\ Done(task) /\ run[task].fetches = 1 /\ HasResponse(task)
        /\ run[task].response.status = 404
        /\ run[task].response.contentType = JStr(<<"text/html">>)
        /\ run[task].error.type = "HttpError" /\ run[task].error.status = JNum(404)

\* the tokens of a string
Tokens(str) == {str[i] : i \in 1..Len(str)}
\* what the section shows to the user
Shown(task) ==
    (IF dom[task].errorEl = "visible" THEN Tokens(dom[task].errorText) ELSE {})
    \cup Tokens(dom[task].dataHtml) \cup Tokens(dom[task].ownHtml)
\* the response body, the request URL and the texts of the underlying exceptions
Internal(task) ==
    (IF HasResponse(task) THEN Tokens(run[task].response.text) ELSE {})
    \cup {Request(task).url}
    \cup Tokens(FetchFailure.message) \cup Tokens(JSyntaxError.error.message)
    \cup Tokens(JTypeError.error.message)
    \cup {"The operation is insecure.", "The quota has been exceeded."}
    \cup (IF run[task].error.name # "FetchDataError" THEN Tokens(run[task].error.message) ELSE {})

\* C8: when a run ends in an error the user sees only the message of the tagged
\* error, or the fixed generic message; the response body, the request URL and
\* the text of the underlying exception are logged and never shown.
C8_SanitizedErrorDisplay ==
    \A task \in Tasks :
        run[task].exit = "error" =>
            /\ dom[task].errorEl = "visible"
            /\ dom[task].errorText = IF run[task].error.name = "FetchDataError"
                                     THEN run[task].error.message
                                     ELSE UnexpectedErrorMessage
            /\ dom[task].dataHtml = <<>> /\ dom[task].ownHtml = <<>>
            /\ Shown(task) \cap Internal(task) = {}

C8_Witness ==
    \E task \in Tasks :
        /\ run[task].exit = "error" /\ HasResponse(task)
        /\ run[task].response.status = 500 /\ ~run[task].response.textFails
        /\ dom[task].errorText = <<"Failed to load data: Server responded with ", "500", " (",
                                   "Internal Server Error", ").">>
        /\ \E entry \in console[task] :
              Tokens(run[task].response.text) \subseteq Tokens(entry)

\* C9: if the transform raises on the parsed JSON, the run ends in the
\* processing error, shows its fixed message, renders no fragment and writes
\* nothing to the cache.
C9_TransformFailure ==
    \A task \in Tasks :
        (Done(task) /\ run[task].transforms = 1 /\ Fragment(task).t = "throw") =>
            /\ run[task].exit = "error"
            /\ run[task].error =
                  FetchDataError(ProcessingErrorMessage, "DataProcessingError", JUndefined)
            /\ dom[task].errorEl = "visible" /\ dom[task].errorText = ProcessingErrorMessage
            /\ dom[task].dataHtml = <<>>
            /\ run[task].writes = 0
            /\ localStorage[Key(task)] = run[task].cachedData

C9_Witness ==
    \E task \in Tasks :
        /\ Done(task) /\ run[task].transforms = 1 /\ Fragment(task).t = "throw"
        /\ run[task].error.type = "DataProcessingError"
        /\ dom[task].errorText = ProcessingErrorMessage

\* C10: if the display target does not exist the run aborts at once: no loader,
\* error indicator or content area is touched, the cache is neither read nor
\* written, no request is made and the transform is not called.
C10_MissingTargetAborts ==
    \A task \in Tasks :
        (~html[task].exists /\ run[task].pc # "unloaded") =>
            /\ Done(task) /\ run[task].exit = "aborted" /\ run[task].promise = "resolved"
            /\ dom[task] = html[task]
            /\ run[task].reads = 0 /\ run[task].writes = 0
            /\ run[task].fetches = 0 /\ run[task].transforms = 0
            /\ localStorage[Key(task)] = JNull /\ stored[Key(task)] = JNull

C10_Witness ==
    \E task, other \in Tasks :
        /\ ~html[task].exists /\ run[task].exit = "aborted" /\ dom[task] = Absent
        /\ console[task] # {}
        /\ html[other].exists /\ run[other].pc = "fetch"

(* ------------------------ properties: normalizers ---------------------- *)

\* the parsed body the endpoint of the task answered with
Body(task) == run[task].response.json
\* the run of the task got a JSON body and has finished
Settled(task) == Done(task) /\ HasResponse(task)
\* the elements of a list, none for anything else
Elements(v) == IF v.t = "array" THEN {v.a[i] : i \in 1..Len(v.a)} ELSE {}
\* the fragment of a standings line
RecordLine(wins, losses, ties, source) ==
    <<"<p>Washington Commanders: ", wins, "V - ", losses, "D - ", ties, "E (Source: ", source, ")</p>">>
\* the run showed the markup as its data: no empty message and no error
ShowsData(task, markup) ==
    /\ run[task].exit = "data" /\ dom[task].dataHtml = markup
    /\ dom[task].errorEl = "hidden" /\ run[task].error = NoError
\* the run showed the empty message, no error, and left the cache without entry
ShowsEmpty(task) ==
    /\ run[task].exit = "empty" /\ dom[task].dataHtml = EmptyMarkup(task)
    /\ dom[task].errorEl = "hidden" /\ run[task].error = NoError
    /\ localStorage[Key(task)] = JNull /\ run[task].writes = 0

\* shape (a): the entries of the tracked team in the tables of data.children
ShapeA(data) ==
    {entry \in UNION {Elements(Prop(Prop(child, "standings"), "entries")) :
                        child \in Elements(Prop(data, "children"))} :
        Prop(Prop(entry, "team"), "id") = JStr(<<"28">>)}
\* shape (b): the total / overall items of data.record.items
ShapeB(data) ==
    {item \in Elements(Prop(Prop(data, "record"), "items")) :
        Prop(item, "type") = JStr(<<"total">>) \/ Prop(item, "description") = JStr(<<"Overall">>)}
\* shape (c): the total-type or "Overall"-named entries of data.records
ShapeC(data) ==
    {r \in Elements(Prop(data, "records")) :
        Prop(r, "type") = JStr(<<"total">>) \/ Prop(r, "name") = JStr(<<"Overall">>)}
\* the line of a record whose summary is w-l-t, one digit each
SummaryLine(record) ==
    LET s == Prop(record, "summary").s
    IN  RecordLine(s[1], s[3], s[5], "Summary String")

\* C11 as stated: processStandingsData uses the record of the first of the
\* shapes (a) children tables, (b) record.items, (c) records that yields one;
\* in particular, when (a) and (b) yield none and the records list holds a
\* matching entry, that entry is the record the standings line is made from.
C11_ShapePriority ==
    (Settled("standings") /\ Body("standings") \in StandingsShapes) =>
        LET data == Body("standings")
            yielded == IF ShapeA(data) # {} THEN ShapeA(data)
                       ELSE IF ShapeB(data) # {} THEN ShapeB(data)
                       ELSE ShapeC(data)
        IN  yielded # {} => \E record \in yielded : ShowsData("standings", SummaryLine(record))

\* the record of a body whose record.items holds one item
OnlyItem(data) == Prop(Prop(data, "record"), "items").a[1]
\* the body is a record.items list holding one total item
HasOnlyItem(data) == data \in StandingsRecords
\* the places of the dashes of a string
Dashes(s) == {i \in 1..Len(s) : s[i] = "-"}
\* s has the form W-L or W-L-T, decimal digits only
IsRecordSummary(s) ==
    /\ Cardinality(Dashes(s)) \in {1, 2}
    /\ \A i \in 1..Len(s) : s[i] \in Digits \cup {"-"}
    /\ \A i \in Dashes(s) : i > 1 /\ i < Len(s) /\ (i + 1) \notin Dashes(s)
\* the integer a run of digits denotes, read from the left
RECURSIVE Decimal(_, _)
Decimal(ds, acc) == IF ds = <<>> THEN acc ELSE Decimal(Tail(ds), 10 * acc + DigitValue(Head(ds)))
\* the k-th part of a summary, 0 when it has no such part
SummaryPart(s, k) ==
    LET cuts == Dashes(s) \cup {0, Len(s) + 1}
        from == CHOOSE i \in cuts : Cardinality({j \in cuts : j < i}) = k - 1
        to == CHOOSE i \in cuts : Cardinality({j \in cuts : j < i}) = k
    IN  IF Cardinality(cuts) <= k THEN 0 ELSE Decimal(SubSeq(s, from + 1, to - 1), 0)

\* C12: when the located record has a summary string of the form W-L or W-L-T
\* (decimal digits only), the fragment names the Washington Commanders and
\* reads "{W}V - {L}D - {T}E", with T = 0 when the summary has no third part.
C12_SummaryStrategy ==
    (Settled("standings") /\ HasOnlyItem(Body("standings"))) =>
        LET summary == Prop(OnlyItem(Body("standings")), "summary")
        IN  (summary.t = "string" /\ IsRecordSummary(summary.s)) =>
                /\ run["standings"].exit = "data" /\ run["standings"].error = NoError
                /\ SubSeq(dom["standings"].dataHtml, 1, 7) =
                      <<"<p>Washington Commanders: ", ToString(SummaryPart(summary.s, 1)), "V - ",
                        ToString(SummaryPart(summary.s, 2)), "D - ",
                        ToString(SummaryPart(summary.s, 3)), "E (Source: ">>

\* the summary 11-5-1 was shown as 11V - 5D - 1E
C12_Witness ==
    /\ Settled("standings") /\ HasOnlyItem(Body("standings"))
    /\ Prop(OnlyItem(Body("standings")), "summary") = Chars(<<"1", "1", "-", "5", "-", "1">>)
    /\ dom["standings"].dataHtml = RecordLine("11", "5", "1", "Summary String")

\* the stats list of the record, given that it has one
StatsOf(record) == Prop(record, "stats").a
\* the record has no summary and has a stats list
HasStatsOnly(record) == Prop(record, "summary") = JUndefined /\ Prop(record, "stats").t = "array"
\* the stats named name or abbreviated by its first letter, upper case
Named(stats, name) ==
    LET letter == CASE name = "wins" -> "W" [] name = "losses" -> "L" [] name = "ties" -> "T"
    IN  {i \in 1..Len(stats) : \/ Prop(stats[i], "name") = JStr(<<name>>)
                               \/ Prop(stats[i], "abbreviation") = JStr(<<letter>>)}
\* the value of the first stat of that name as an integer: 0 when there is no
\* such stat or its value is not a number
StatValue(stats, name) ==
    LET hits == Named(stats, name)
        value == Prop(stats[CHOOSE i \in hits : \A j \in hits : i <= j], "value")
    IN  IF hits = {} THEN 0
        ELSE IF value.t = "number" THEN value.n
        ELSE IF value.t = "string" /\ value.s # <<>> /\ \A i \in 1..Len(value.s) : value.s[i] \in Digits
             THEN Decimal(value.s, 0)
        ELSE 0

\* C13 as stated: when the located record has no summary and has a stats list,
\* wins, losses and ties are looked up by name or single-letter abbreviation,
\* a statistic that is missing or unparsable counts as 0, and nothing is
\* raised: the run does not end in an error, and a fragment it shows reads the
\* three values.
C13_StatsDefaultToZero ==
    (/\ Settled("standings") /\ HasOnlyItem(Body("standings"))
     /\ HasStatsOnly(OnlyItem(Body("standings")))) =>
        LET stats == StatsOf(OnlyItem(Body("standings")))
        IN  /\ run["standings"].exit # "error"
            /\ run["standings"].exit = "data" =>
                   dom["standings"].dataHtml =
                       RecordLine(ToString(StatValue(stats, "wins")), ToString(StatValue(stats, "losses")),
                                  ToString(StatValue(stats, "ties")), "Stats Array")

\* none of the three shapes yields a record
NoShapeYields(data) == ShapeA(data) = {} /\ ShapeB(data) = {} /\ ShapeC(data) = {}

Accepted(stats) ==
    \/ StatValue(stats, "wins") > 0 \/ StatValue(stats, "losses") > 0 \/ StatValue(stats, "ties") > 0
    \/ \E i \in 1..Len(stats) : Prop(stats[i], "name") = JStr(<<"wins">>)

\* C15 as stated: when the stats strategy is used, a fragment is produced if
\* and only if one of wins, losses, ties is greater than 0 or a wins entry is
\* listed (even with value 0); in every other case, an empty stats list
\* included, the run ends in the empty message: no fragment and no exception.
C15_StatsAcceptance ==
    (/\ Settled("standings") /\ HasOnlyItem(Body("standings"))
     /\ HasStatsOnly(OnlyItem(Body("standings")))) =>
        IF Accepted(StatsOf(OnlyItem(Body("standings"))))
        THEN run["standings"].exit = "data"
        ELSE ShowsEmpty("standings")

\* the tokens that close the <p> of an event
LineEnds == {" - Datos de competicion incompletos</p>", " - Datos de equipo incompletos</p>", "</p>"}
\* the number of <p> lines of a fragment
LineCount(markup) == Cardinality({i \in 1..Len(markup) : markup[i] \in LineEnds})
\* typeof v === 'object', null excluded
IsObject(v) == v.t \in {"object", "array"}
\* the body holds a non-empty events list
HasEvents(data) == Prop(data, "events").t = "array" /\ Len(Prop(data, "events").a) > 0
\* the fallback line of an event
FallbackLine(name, date, what) == <<"<p>Evento: ", name, " - Fecha: ", date, what>>

Contains(markup, line) ==
    \E k \in 0..(Len(markup) - Len(line)) : SubSeq(markup, k + 1, k + Len(line)) = line
\* the name an event is shown under
NameOf(event) ==
    IF Prop(event, "name").t = "string" THEN Prop(event, "name").s[1] ELSE "Unnamed Event"
\* the date an event is shown with: "Date N/A" unless the date parses
DateOf(event) ==
    IF Prop(event, "date").t = "string" /\ Prop(event, "date").s[1] \in DOMAIN KnownDates
    THEN KnownDates[Prop(event, "date").s[1]]
    ELSE "Date N/A"
\* the competitors of the first competition of an event, <<>> without one
CompetitorsOf(event) ==
    LET competitions == Prop(event, "competitions")
        first == IF competitions.t = "array" /\ Len(competitions.a) > 0
                 THEN competitions.a[1] ELSE JUndefined
    IN  IF Prop(first, "competitors").t = "array" THEN Prop(first, "competitors").a ELSE <<>>
\* the places of the competitors tagged with the side
Tagged(competitors, side) ==
    {i \in 1..Len(competitors) : Prop(competitors[i], "homeAway") = JStr(<<side>>)}
\* the first competitor tagged with the side, undefined when there is none
Side(competitors, side) ==
    IF Tagged(competitors, side) = {} THEN JUndefined
    ELSE competitors[CHOOSE i \in Tagged(competitors, side) :
                        \A j \in Tagged(competitors, side) : i <= j]
\* the event has no first competition or fewer than two competitors
LacksCompetition(event) == Len(CompetitorsOf(event)) < 2
\* a side is not tagged or its competitor has no team object
LacksTeam(event) ==
    \E side \in {"home", "away"} : Prop(Side(CompetitorsOf(event), side), "team").t # "object"
\* the events of a body that holds an events list
EventsOf(data) == Prop(data, "events").a

StatusType(event) == Prop(Prop(Prop(event, "competitions").a[1], "status"), "type")
\* the score a competitor is shown with
ScoreOf(competitor) ==
    IF Prop(competitor, "score").t = "string" THEN Prop(competitor, "score").s[1] ELSE "0"
\* the abbreviation a competitor is shown with
AbbreviationOf(competitor) ==
    IF Prop(Prop(competitor, "team"), "abbreviation").t = "string"
    THEN Prop(Prop(competitor, "team"), "abbreviation").s[1] ELSE "N/A"
\* the last n tokens of a fragment
Last(markup, n) == SubSeq(markup, Len(markup) - n + 1, Len(markup))

\* C18: the line of a complete event ends in "homeScore - awayScore" (home
\* first, '0' for a side without score) if and only if the status of the
\* competition is marked completed; otherwise in the status description when
\* there is one, and in "Pendiente" when there is none; home and away are the
\* competitors tagged so, wherever they stand in the list (the line names the
\* away team first).
C18_EventsStatus ==
    (/\ Settled("events") /\ HasEvents(Body("events")) /\ Len(EventsOf(Body("events"))) = 1
     /\ IsObject(EventsOf(Body("events"))[1])
     /\ ~LacksCompetition(EventsOf(Body("events"))[1])
     /\ ~LacksTeam(EventsOf(Body("events"))[1])) =>
        LET event == EventsOf(Body("events"))[1]
            home == Side(CompetitorsOf(event), "home")
            away == Side(CompetitorsOf(event), "away")
            line == dom["events"].dataHtml
        IN  /\ run["events"].exit = "data"
            /\ SubSeq(line, 1, 2) = <<"<p>", AbbreviationOf(away)>>
            /\ IF Prop(StatusType(event), "completed") = JBool(TRUE)
               THEN Last(line, 5) = <<" | Estado: ", ScoreOf(home), " - ", ScoreOf(away), "</p>">>
               ELSE IF Prop(StatusType(event), "description").t = "string"
               THEN Last(line, 3) = <<" | Estado: ", Prop(StatusType(event), "description").s[1], "</p>">>
               ELSE Last(line, 3) = <<" | Estado: ", "Pendiente", "</p>">>

\* a completed game whose away competitor is listed before the home one was
\* shown with the home score first
C18_Witness ==
    /\ Settled("events") /\ HasEvents(Body("events"))
    /\ Len(CompetitorsOf(EventsOf(Body("events"))[1])) = 2
    /\ Prop(CompetitorsOf(EventsOf(Body("events"))[1])[1], "homeAway") = JStr(<<"away">>)
    /\ Prop(StatusType(EventsOf(Body("events"))[1]), "completed") = JBool(TRUE)
    /\ Last(dom["events"].dataHtml, 5) = <<" | Estado: ", "20", " - ", "17", "</p>">>

\* the body holds a non-empty podcasts list
HasPodcasts(data) == Prop(data, "podcasts").t = "array" /\ Len(Prop(data, "podcasts").a) > 0
\* the podcast has a playable src
Playable(podcast) == Prop(podcast, "src").t = "string" /\ Prop(podcast, "src").s # <<>>
\* the values of the src attributes of the cards of a fragment, in order
RECURSIVE Sources(_)
Sources(markup) ==
    IF Len(markup) < 2 THEN <<>>
    ELSE IF Head(markup) = "<source src=" THEN <<markup[2]>> \o Sources(Tail(markup))
    ELSE Sources(Tail(markup))
\* the src of the playable podcasts of a list, in order
RECURSIVE PlayableSources(_)
PlayableSources(podcasts) ==
    IF podcasts = <<>> THEN <<>>
    ELSE IF Playable(Head(podcasts))
         THEN <<Prop(Head(podcasts), "src").s[1]>> \o PlayableSources(Tail(podcasts))
    ELSE PlayableSources(Tail(podcasts))

Terminal(task) ==
    /\ Done(task) /\ dom[task].loader = "hidden"
    /\ \/ /\ run[task].exit \in {"data", "cache"}
          /\ dom[task].errorEl = "hidden" /\ dom[task].dataHtml # <<>>
       \/ /\ run[task].exit = "empty" /\ dom[task].errorEl = "hidden"
          /\ dom[task].dataHtml = <<"<p>", Request(task).emptyDataMessage, "</p>">>
       \/ /\ run[task].exit = "error" /\ dom[task].errorEl = "visible"
          /\ dom[task].errorText # <<>>

\* C21: when every fetch completes, each of the four sections of the page ends
\* at rest (loader hidden; data, empty message or error message shown) in every
\* interleaving of the four tasks; a suspended task is resumed by its own
\* response only, whatever the other three are doing.
C21_EverySectionSettles ==
    \A task \in Tasks : (loads = 1) ~> Terminal(task)

\* the tasks completed in the reverse of the order they were started in, each
\* one while the ones started before it were still waiting
C21_Witness ==
    /\ Terminal("podcasts") /\ run["podcasts"].exit = "data"
    /\ Terminal("articles") /\ run["articles"].exit = "error"
    /\ Terminal("standings") /\ run["standings"].exit = "empty"
    /\ run["events"].pc = "fetch"

\* the task run on its own on the page: from the section as the document
\* declares it and an empty cache entry, through the response it was given, as
\* far as it has come
Alone(task) ==
    LET start == fetchDataAndDisplay([task |-> task, d |-> SetupSection(html[task]),
                                      r |-> InitialRun, log |-> {}, item |-> JNull,
                                      mode |-> storageMode, stored |-> JNull])
        got == onResponse(start, run[task].response)
    IN  IF start.r.pc = "done" \/ run[task].pc = "fetch" THEN start
        ELSE IF ~HasResponse(task) THEN onFetchRejected(start, FetchFailure)
        ELSE IF Suspended(task) THEN got
        ELSE CASE got.r.pc = "errorText" -> onErrorText(got)
               [] got.r.pc = "responseText" -> onResponseText(got)
               [] got.r.pc = "json" -> onJson(got)

\* C22: when the run of one task has ended in an error, the loader, the error
\* message, the content area and the cache entry of every other section are
\* what that task's own run and response make them, in every interleaving: an
\* error state appears in the failed task's section only.
C22_FailureIsolation ==
    \A failed \in Tasks : \A other \in Tasks \ {failed} :
        (loads = 1 /\ run[failed].exit = "error") =>
            /\ dom[other] = Alone(other).d
            /\ localStorage[Key(other)] = Alone(other).item
            /\ run[other].exit # "error" => dom[other].errorEl = "hidden"

\* one task failed on the network, another on the status, a third while the
\* fourth has shown and cached its data and kept them
C22_Witness ==
    /\ run["events"].exit = "error" /\ run["events"].error.type = "NetworkError"
    /\ run["standings"].exit = "error" /\ run["standings"].error.type = "HttpError"
    /\ run["articles"].exit = "error" /\ run["articles"].error.type = "DataProcessingError"
    /\ run["podcasts"].exit = "data" /\ dom["podcasts"].errorEl = "hidden"
    /\ dom["podcasts"].dataHtml = Fragment("podcasts").s
    /\ localStorage[Key("podcasts")] = Fragment("podcasts")


\* the loading state of a section
Loading(task) ==
    /\ dom[task].loader = "visible" /\ dom[task].errorEl = "hidden"
    /\ dom[task].dataHtml = <<>>

\* C26: while a run that found its target and missed the cache is suspended,
\* its section shows the loader, hides the error message and has an empty
\* content area; as long as its fetch has not completed nothing changes the
\* section, so a fetch that never completes leaves it loading for ever.
C26_LoadingWhileSuspended ==
    /\ [](\A task \in Tasks : Suspended(task) => Loading(task))
    /\ [][\A task \in Tasks :
            (run[task].pc = "fetch" /\ run'[task].pc = "fetch") =>
                (dom'[task] = dom[task] /\ run'[task] = run[task])]_vars

\* a section the page declares without a loader, waiting for its fetch after
\* an empty cache entry was read
C26_Witness ==
    \E task \in Tasks :
        /\ html[task] = Bare /\ run[task].pc = "fetch"
        /\ run[task].cachedData = JStr(<<>>) /\ Loading(task)


\* C27: the four tasks have pairwise distinct cache keys and display targets,
\* an entry changes only in a step of the task that owns its key, and once the
\* engine has written an entry no later step, of this page load or of a later
\* one, writes, changes or removes it.
C27_CacheOwnership ==
    /\ [](\A a \in Tasks : \A b \in Tasks \ {a} :
            /\ Request(a).cacheKey # Request(b).cacheKey
            /\ Request(a).elementId # Request(b).elementId)
    /\ [][\A task \in Tasks :
            /\ localStorage'[Key(task)] # localStorage[Key(task)] =>
                  (run'[task].writes = run[task].writes + 1 /\ stored[Key(task)] = JNull)
            /\ stored[Key(task)] # JNull =>
                  /\ localStorage'[Key(task)] = localStorage[Key(task)]
                  /\ stored'[Key(task)] = stored[Key(task)]
                  /\ run'[task].writes <= run[task].writes]_vars

\* the entry written in the first page load was served in the second
C27_Witness ==
    \E task \in Tasks :
        /\ loads = 2 /\ previous[task] = "data"
        /\ Done(task) /\ run[task].exit = "cache" /\ run[task].writes = 0
        /\ stored[Key(task)] # JNull /\ localStorage[Key(task)] = stored[Key(task)]


\* the response of the run had a 2xx status, a JSON content type and a body
\* that parsed
GoodResponse(task) ==
    /\ HasResponse(task) /\ run[task].response.status \in 200..299
    /\ Truthy(run[task].response.contentType)
    /\ Includes(run[task].response.contentType.s, "application/json")
    /\ run[task].response.json.t # "throw"

\* C28: an entry written by the engine is a string that is neither empty nor
\* white space only, and the run that wrote it got a 2xx JSON response that
\* parsed and wrote what the task's transform returned for it; a run that ends
\* in an error or with the empty message writes nothing.
C28_CacheContent ==
    \A task \in Tasks :
        /\ stored[Key(task)] # JNull =>
              /\ stored[Key(task)].t = "string" /\ ~IsBlank(stored[Key(task)].s)
              /\ localStorage[Key(task)] = stored[Key(task)]
        /\ run[task].writes <= 1
        /\ run[task].writes = 1 =>
              /\ GoodResponse(task) /\ run[task].transforms = 1
              /\ stored[Key(task)] = Fragment(task)
              /\ run[task].exit = "data"
        /\ run[task].exit \in {"error", "empty", "cache", "aborted"} => run[task].writes = 0

C28_Witness ==
    \E task \in Tasks :
        /\ Done(task) /\ run[task].writes = 1 /\ run[task].response.status = 200
        /\ stored[Key(task)] = Fragment(task) /\ localStorage[Key(task)] = Fragment(task)
        /\ ~IsBlank(Fragment(task).s)


\* the content sub-area shows the data or the empty message, no error
ShowsContent(task) ==
    /\ dom[task].errorEl = "hidden"
    /\ dom[task].dataHtml = CASE run[task].exit = "data" -> Fragment(task).s
                              [] run[task].exit = "cache" -> run[task].cachedData.s
                              [] run[task].exit = "empty" -> EmptyMarkup(task)
                              [] OTHER -> <<"none">>
\* the error message is shown and the content sub-area is empty
ShowsError(task) ==
    /\ dom[task].errorEl = "visible" /\ dom[task].errorText # <<>>
    /\ dom[task].dataHtml = <<>>

\* C29: when the run of a section with its own loader, error message and
\* content sub-area is over, either the content sub-area shows the data or the
\* empty message and the error message is hidden, or the error message is
\* shown and the content sub-area is empty, never both and never neither; this
\* holds when the failure comes after the fragment was written, too.
C29_ExclusiveTerminalStates ==
    \A task \in Tasks :
        (Done(task) /\ dom[task].exists /\ run[task].errorMessageElement
            /\ run[task].contentArea = "data-content") =>
            /\ ShowsContent(task) # ShowsError(task)
            /\ ShowsError(task) <=> run[task].exit = "error"

\* setItem raised after the fragment had been written into the content area
C29_Witness ==
    \E task \in Tasks :
        /\ Done(task) /\ run[task].error.name = "QuotaExceededError"
        /\ run[task].transforms = 1 /\ HasContent(Fragment(task))
        /\ ShowsError(task) /\ ~ShowsContent(task)


\* C30: a run makes at most one request and calls the transform at most once,
\* and only when that request was answered with a 2xx JSON response that
\* parsed; the transform is not called on a cache hit, without a target, while
\* the run waits, or after a network, status or format error.
C30_PipelineOrder ==
    \A task \in Tasks :
        /\ run[task].fetches <= 1 /\ run[task].transforms <= 1
        /\ run[task].transforms = 1 => (run[task].fetches = 1 /\ GoodResponse(task))
        /\ Suspended(task) => (run[task].fetches = 1 /\ run[task].transforms = 0)
        /\ run[task].exit \in {"cache", "aborted"} =>
              (run[task].fetches = 0 /\ run[task].transforms = 0)
        /\ run[task].error.type \in {"NetworkError", "HttpError", "JsonParseError"} =>
              run[task].transforms = 0

\* the transform was called once, after the one request, and raised
C30_Witness ==
    \E task \in Tasks :
        /\ Done(task) /\ run[task].fetches = 1 /\ run[task].transforms = 1
        /\ GoodResponse(task) /\ run[task].error.type = "DataProcessingError"

(* ------------------------ properties: the proxy ------------------------ *)

Answered == server.pc = "done"
Espn == server.handler \in {"events", "standings"}
\* the upstream request failed: no credential, no answer, a status outside
\* 200..299 or a body that does not parse
UpstreamFailed ==
    \/ ~HasCredential(server.env)
    \/ "status" \notin DOMAIN server.response
    \/ ~(server.response.status \in 200..299)
    \/ server.response.json.t = "throw"
\* a 500 body: an object whose only field is the string error
IsEnvelope(body) ==
    /\ body.t = "object" /\ DOMAIN body.o = {"error"} /\ body.o.error.t = "string"

Secrets ==
    {Credential, "&apikey=", ESPN_API_BASE_URL}
    \cup (IF Espn THEN {API_PATH(server.handler), QueryString(server.handler)} ELSE {})
    \cup Tokens(server.url)
    \cup (IF "status" \in DOMAIN server.response THEN Tokens(server.response.text) ELSE {})

\* C25: whatever the failure, the body sent to the browser holds neither the
\* credential nor the upstream URL nor the upstream body; the URL and the body
\* that was read are in the server's log.
C25_NoLeak ==
    (Answered /\ server.sent[1].status # 200) =>
        /\ Tokens(server.sent[1].body.o.error.s) \cap Secrets = {}
        /\ server.requested # <<>> =>
              \E entry \in server.log :
                  /\ Tokens(server.url) \subseteq Tokens(entry)
                  /\ ("status" \in DOMAIN server.response /\ ~server.response.textFails
                        /\ server.response.status \notin 200..299) =>
                        Tokens(server.response.text) \subseteq Tokens(entry)

\* ESPN refused the request and named the key in its answer
C25_Witness ==
    /\ Answered /\ server.handler = "events"
    /\ "status" \in DOMAIN server.response /\ server.response.status = 401
    /\ Credential \in Tokens(server.response.text)
    /\ server.sent[1].status = 500
    /\ \E entry \in server.log : Credential \in Tokens(entry)

====
